---- MODULE Spec2Model ----
(***************************************************************************)
(* Model of the proxies of claude-sandbox.  gh_proxy.rs: the policy       *)
(* registry, the request validator, the help and extension stages and the  *)
(* per-connection request pipeline.  clipboard_proxy.rs: the screenshot    *)
(* lookup and its connection handler.                                      *)
(*                                                                         *)
(* Specifications: Spec (one gh-proxy connection), SpecClipboard (one      *)
(* clipboard-proxy connection), SpecServices (one connection of either),   *)
(* SpecServer (concurrent handlers of either service), and the direct      *)
(* calls SpecValidator (reject_reason), SpecExt (maybe_ext_command) and    *)
(* SpecHelp (maybe_help).                                                  *)
(*                                                                         *)
(* Strings are TLA+ strings; a Rust byte offset k is the TLA+ position     *)
(* k + 1.  Option<T> is the record [some |-> FALSE] or                     *)
(* [some |-> TRUE, val |-> x]; Result<(), String> is [ok |-> TRUE] or      *)
(* [ok |-> FALSE, err |-> s].                                              *)
(***************************************************************************)
EXTENDS Integers, Sequences, FiniteSets, TLC

(***************************************************************************)
(* Bounds of the model.                                                    *)
(***************************************************************************)
\* greatest number of tokens after the (group, subcommand) pair
MaxTail ==
  2

\* number of connection handler threads of the process
MaxHandlers ==
  2

\* the greatest number of entries of the screenshots directory
MaxEntries ==
  2

\* the greatest number of orchestrators started in one workspace
MaxOrchestrators ==
  2

(***************************************************************************)
(* Option and Result values.                                               *)
(***************************************************************************)
None ==
  [some |-> FALSE]

Some(x) ==
  [some |-> TRUE, val |-> x]

Ok ==
  [ok |-> TRUE]

Err(e) ==
  [ok |-> FALSE, err |-> e]

(***************************************************************************)
(* String helpers of the Rust standard library, as the code uses them.     *)
(***************************************************************************)
\* str::starts_with
starts_with(s, p) ==
  /\ Len(s) >= Len(p)
  /\ (Len(p) = 0 \/ SubSeq(s, 1, Len(p)) = p)

\* str::find(char): position of the first occurrence, None when absent
find(s, ch) ==
  LET hits == {i \in 1..Len(s) : SubSeq(s, i, i) = ch}
  IN  IF hits = {} THEN None
      ELSE Some(CHOOSE i \in hits : \A j \in hits : i <= j)

\* slice::contains
contains(seq, x) ==
  \E i \in 1..Len(seq) : seq[i] = x

\* the slice args[k..] of Rust (k is 0-based)
SliceFrom(args, k) ==
  SubSeq(args, k + 1, Len(args))

RECURSIVE join(_, _)
\* slice::join
join(args, sep) ==
  IF Len(args) = 0 THEN ""
  ELSE IF Len(args) = 1 THEN args[1]
  ELSE args[1] \o sep \o join(Tail(args), sep)

(***************************************************************************)
(* Policy registry.                                                        *)
(***************************************************************************)
\* the entries of the table COMMANDS, in table order
CommandDefs ==
  << [group |-> "pr", subcommand |-> "list", is_write |-> FALSE,
      allowed_flags |-> <<
          "--state", "-s", "--limit", "-L", "--json", "--jq", "-q",
          "--label", "-l", "--author", "-A", "--assignee", "-a", "--base",
          "-B", "--head", "-H", "--search", "-S", "--draft", "-d",
          "--template", "-t", "--web", "-w", "--repo", "-R", "--app" >>],
     [group |-> "pr", subcommand |-> "view", is_write |-> FALSE,
      allowed_flags |-> <<
          "--json", "--jq", "-q", "--comments", "-c", "--template", "-t",
          "--web", "-w", "--repo", "-R" >>],
     [group |-> "pr", subcommand |-> "diff", is_write |-> FALSE,
      allowed_flags |-> <<
          "--color", "--patch", "--name-only", "--repo", "-R" >>],
     [group |-> "pr", subcommand |-> "checks", is_write |-> FALSE,
      allowed_flags |-> <<
          "--json", "--jq", "-q", "--watch", "--interval", "-i",
          "--fail-fast", "--required", "--web", "-w", "--repo", "-R" >>],
     [group |-> "issue", subcommand |-> "list", is_write |-> FALSE,
      allowed_flags |-> <<
          "--state", "-s", "--limit", "-L", "--json", "--jq", "-q",
          "--label", "-l", "--author", "-A", "--assignee", "-a",
          "--milestone", "-m", "--search", "-S", "--template", "-t",
          "--web", "-w", "--repo", "-R" >>],
     [group |-> "issue", subcommand |-> "view", is_write |-> FALSE,
      allowed_flags |-> <<
          "--json", "--jq", "-q", "--comments", "-c", "--template", "-t",
          "--web", "-w", "--repo", "-R" >>],
     [group |-> "repo", subcommand |-> "view", is_write |-> FALSE,
      allowed_flags |-> <<
          "--json", "--jq", "-q", "--template", "-t", "--web", "-w",
          "--repo", "-R" >>],
     [group |-> "release", subcommand |-> "list", is_write |-> FALSE,
      allowed_flags |-> <<
          "--limit", "-L", "--json", "--jq", "-q", "--exclude-drafts",
          "--exclude-pre-releases", "--order", "-O", "--repo", "-R" >>],
     [group |-> "release", subcommand |-> "view", is_write |-> FALSE,
      allowed_flags |-> <<
          "--json", "--jq", "-q", "--template", "-t", "--web", "-w",
          "--repo", "-R" >>],
     [group |-> "run", subcommand |-> "list", is_write |-> FALSE,
      allowed_flags |-> <<
          "--limit", "-L", "--json", "--jq", "-q", "--branch", "-b",
          "--workflow", "-w", "--status", "-s", "--event", "-e", "--user",
          "-u", "--commit", "-c", "--repo", "-R" >>],
     [group |-> "run", subcommand |-> "view", is_write |-> FALSE,
      allowed_flags |-> <<
          "--json", "--jq", "-q", "--log", "--log-failed",
          "--exit-status", "--verbose", "-v", "--web", "-w", "--job",
          "-j", "--attempt", "--repo", "-R" >>],
     [group |-> "pr", subcommand |-> "create", is_write |-> TRUE,
      allowed_flags |-> <<
          "--title", "-t", "--body", "-b", "--base", "-B", "--head", "-H",
          "--draft", "-d", "--label", "-l", "--assignee", "-a",
          "--reviewer", "-r", "--milestone", "-m", "--fill", "-f",
          "--fill-first", "--fill-verbose", "--web", "-w", "--template",
          "-T", "--no-maintainer-edit" >>],
     [group |-> "pr", subcommand |-> "comment", is_write |-> TRUE,
      allowed_flags |-> <<
          "--body", "-b", "--edit-last", "--web", "-w" >>],
     [group |-> "issue", subcommand |-> "create", is_write |-> TRUE,
      allowed_flags |-> <<
          "--title", "-t", "--body", "-b", "--label", "-l", "--assignee",
          "-a", "--milestone", "-m", "--project", "-p", "--web", "-w",
          "--template", "-T" >>],
     [group |-> "issue", subcommand |-> "comment", is_write |-> TRUE,
      allowed_flags |-> <<
          "--body", "-b", "--edit-last", "--web", "-w" >>] >>

\* mutation: --repo is added to the allowlist of the write command pr comment
COMMANDS_repo_on_write ==
  [i \in 1..Len(CommandDefs) |->
     IF CommandDefs[i].group = "pr" /\ CommandDefs[i].subcommand = "comment"
     THEN [CommandDefs[i] EXCEPT !.allowed_flags = Append(@, "--repo")]
     ELSE CommandDefs[i]]

\* mutation: -R is missing from the allowlist of the read command pr diff
COMMANDS_no_R_on_read ==
  [i \in 1..Len(CommandDefs) |->
     IF CommandDefs[i].group = "pr" /\ CommandDefs[i].subcommand = "diff"
     THEN [CommandDefs[i] EXCEPT !.allowed_flags = SelectSeq(@, LAMBDA f : f # "-R")]
     ELSE CommandDefs[i]]

COMMANDS ==
  CommandDefs

\* EXT_COMMANDS: the handler is named by a tag
EXT_COMMANDS ==
  << [group |-> "ext", subcommand |-> "run-logs", handler |-> "handle_run_logs"] >>

\* index of the first entry of table with the (group, subcommand) pair
FirstMatch(table, group, subcommand) ==
  LET hits == {i \in 1..Len(table) :
                 table[i].group = group /\ table[i].subcommand = subcommand}
  IN  IF hits = {} THEN None
      ELSE Some(table[CHOOSE i \in hits : \A j \in hits : i <= j])

find_ext_command(group, subcommand) ==
  FirstMatch(EXT_COMMANDS, group, subcommand)

\* mutation: the subcommand is not compared
find_command_group_only(group, subcommand) ==
  LET hits == {i \in 1..Len(COMMANDS) : COMMANDS[i].group = group}
  IN  IF hits = {} THEN None
      ELSE Some(COMMANDS[CHOOSE i \in hits : \A j \in hits : i <= j])

find_command(group, subcommand) ==
  FirstMatch(COMMANDS, group, subcommand)

(***************************************************************************)
(* Request validator.                                                      *)
(***************************************************************************)
\* mutation: every token is cut at its first `=`, short flags included
extract_flag_any_dash(arg) ==
  IF starts_with(arg, "-") /\ find(arg, "=").some
  THEN SubSeq(arg, 1, find(arg, "=").val - 1)
  ELSE arg

\* mutation: the token is never cut
extract_flag_whole(arg) ==
  arg

extract_flag(arg) ==
  IF starts_with(arg, "--") /\ find(arg, "=").some
  THEN SubSeq(arg, 1, find(arg, "=").val - 1)
  ELSE arg

RECURSIVE check_flags_loop(_, _, _, _)
\* the for loop of check_flags over rest = args[2..], at position i
check_flags_loop(rest, allowed_flags, i, past_separator) ==
  IF i > Len(rest) THEN Ok
  ELSE IF past_separator
       THEN check_flags_loop(rest, allowed_flags, i + 1, past_separator)
  ELSE IF rest[i] = "--"
       THEN check_flags_loop(rest, allowed_flags, i + 1, TRUE)
  ELSE IF starts_with(rest[i], "-") /\ ~contains(allowed_flags, extract_flag(rest[i]))
       THEN Err(extract_flag(rest[i]))
  ELSE check_flags_loop(rest, allowed_flags, i + 1, past_separator)

RECURSIVE check_flags_last_loop(_, _, _, _, _)
check_flags_last_loop(rest, allowed_flags, i, past_separator, found) ==
  IF i > Len(rest) THEN found
  ELSE IF past_separator
       THEN check_flags_last_loop(rest, allowed_flags, i + 1, past_separator, found)
  ELSE IF rest[i] = "--"
       THEN check_flags_last_loop(rest, allowed_flags, i + 1, TRUE, found)
  ELSE IF starts_with(rest[i], "-") /\ ~contains(allowed_flags, extract_flag(rest[i]))
       THEN check_flags_last_loop(rest, allowed_flags, i + 1, past_separator,
                                  Err(extract_flag(rest[i])))
  ELSE check_flags_last_loop(rest, allowed_flags, i + 1, past_separator, found)

\* mutation: the loop does not return at the first flag outside the
\* allowlist, it reports the last one
check_flags_reports_last(args, allowed_flags) ==
  check_flags_last_loop(SliceFrom(args, 2), allowed_flags, 1, FALSE, Ok)

RECURSIVE check_flags_nosep_loop(_, _, _)
check_flags_nosep_loop(rest, allowed_flags, i) ==
  IF i > Len(rest) THEN Ok
  ELSE IF rest[i] # "--" /\ starts_with(rest[i], "-")
          /\ ~contains(allowed_flags, extract_flag(rest[i]))
       THEN Err(extract_flag(rest[i]))
  ELSE check_flags_nosep_loop(rest, allowed_flags, i + 1)

\* mutation: past_separator is never set, tokens after `--` are checked too
check_flags_ignores_separator(args, allowed_flags) ==
  check_flags_nosep_loop(SliceFrom(args, 2), allowed_flags, 1)

RECURSIVE check_flags_every_loop(_, _, _, _)
check_flags_every_loop(rest, allowed_flags, i, past_separator) ==
  IF i > Len(rest) THEN Ok
  ELSE IF past_separator
       THEN check_flags_every_loop(rest, allowed_flags, i + 1, past_separator)
  ELSE IF rest[i] = "--"
       THEN check_flags_every_loop(rest, allowed_flags, i + 1, TRUE)
  ELSE IF ~contains(allowed_flags, extract_flag(rest[i]))
       THEN Err(extract_flag(rest[i]))
  ELSE check_flags_every_loop(rest, allowed_flags, i + 1, past_separator)

\* mutation: the test starts_with('-') is missing, positional tokens are
\* checked against the allowlist too
check_flags_checks_positionals(args, allowed_flags) ==
  check_flags_every_loop(SliceFrom(args, 2), allowed_flags, 1, FALSE)

check_flags(args, allowed_flags) ==
  check_flags_loop(SliceFrom(args, 2), allowed_flags, 1, FALSE)

reject_reason(args) ==
  IF Len(args) < 2
  THEN Some("command not allowed: gh " \o join(args, " "))
  ELSE LET group == args[1]
           subcommand == args[2]
           cmd == find_command(group, subcommand)
       IN  IF ~cmd.some
           THEN Some("command not allowed: gh " \o group \o " " \o subcommand)
           ELSE LET r == check_flags(args, cmd.val.allowed_flags)
                IN  IF ~r.ok
                    THEN Some("flag not allowed for gh " \o group \o " "
                              \o subcommand \o ": " \o r.err)
                    ELSE None

(***************************************************************************)
(* Help text generation.                                                   *)
(***************************************************************************)
is_help_flag(arg) ==
  arg = "-h" \/ arg = "--help"

\* a flag with one dash only
IsShort(flag) ==
  starts_with(flag, "-") /\ ~starts_with(flag, "--")

RECURSIVE format_flags_loop(_, _, _, _)
\* the for loop of format_flags at 1-based position i, with the set `used`
\* of positions and the lines pushed so far
format_flags_loop(flags, i, used, result) ==
  IF i > Len(flags) THEN result
  ELSE IF i \in used THEN format_flags_loop(flags, i + 1, used, result)
  ELSE IF starts_with(flags[i], "--")
       THEN IF i > 1 /\ (i - 1) \notin used /\ IsShort(flags[i - 1])
            THEN format_flags_loop(flags, i + 1, used \cup {i - 1, i},
                   Append(result, "  " \o flags[i - 1] \o ", " \o flags[i]))
            ELSE format_flags_loop(flags, i + 1, used \cup {i},
                   Append(result, "      " \o flags[i]))
  ELSE IF IsShort(flags[i])
       THEN IF i + 1 <= Len(flags) /\ starts_with(flags[i + 1], "--")
            THEN format_flags_loop(flags, i + 1, used, result)
            ELSE format_flags_loop(flags, i + 1, used \cup {i},
                   Append(result, "  " \o flags[i]))
  ELSE format_flags_loop(flags, i + 1, used, result)

RECURSIVE format_flags_drop_loop(_, _, _, _)
\* mutation: a short flag that waits for the long flag after it is marked
\* used when it is skipped, so the long flag no longer picks it up
format_flags_drop_loop(flags, i, used, result) ==
  IF i > Len(flags) THEN result
  ELSE IF i \in used THEN format_flags_drop_loop(flags, i + 1, used, result)
  ELSE IF starts_with(flags[i], "--")
       THEN IF i > 1 /\ (i - 1) \notin used /\ IsShort(flags[i - 1])
            THEN format_flags_drop_loop(flags, i + 1, used \cup {i - 1, i},
                   Append(result, "  " \o flags[i - 1] \o ", " \o flags[i]))
            ELSE format_flags_drop_loop(flags, i + 1, used \cup {i},
                   Append(result, "      " \o flags[i]))
  ELSE IF IsShort(flags[i])
       THEN IF i + 1 <= Len(flags) /\ starts_with(flags[i + 1], "--")
            THEN format_flags_drop_loop(flags, i + 1, used \cup {i}, result)
            ELSE format_flags_drop_loop(flags, i + 1, used \cup {i},
                   Append(result, "  " \o flags[i]))
  ELSE format_flags_drop_loop(flags, i + 1, used, result)

format_flags_drops_deferred(flags) ==
  format_flags_drop_loop(flags, 1, {}, << >>)

format_flags(flags) ==
  format_flags_loop(flags, 1, {}, << >>)

RECURSIVE Spaces(_)
Spaces(n) ==
  IF n <= 0 THEN "" ELSE " " \o Spaces(n - 1)

\* the format item {:12}: left-aligned, padded with spaces to 12 characters
Pad12(s) ==
  s \o Spaces(12 - Len(s))

RECURSIVE Concat(_)
\* the concatenation of a sequence of strings
Concat(ss) ==
  IF Len(ss) = 0 THEN "" ELSE ss[1] \o Concat(Tail(ss))

RECURSIVE Dedup(_, _)
\* push each element of seq unless the result already contains it
Dedup(seq, acc) ==
  IF Len(seq) = 0 THEN acc
  ELSE Dedup(Tail(seq), IF contains(acc, seq[1]) THEN acc ELSE Append(acc, seq[1]))

\* the entries of a table whose group is g, in table order
OfGroup(table, g) ==
  SelectSeq(table, LAMBDA c : c.group = g)

\* the groups of both tables in order of first appearance
HelpGroups ==
  Dedup([i \in 1..Len(EXT_COMMANDS) |-> EXT_COMMANDS[i].group],
        Dedup([i \in 1..Len(COMMANDS) |-> COMMANDS[i].group], << >>))

\* the subcommands of group g: COMMANDS first, then EXT_COMMANDS
SubsOf(g) ==
  [i \in 1..Len(OfGroup(COMMANDS, g)) |-> OfGroup(COMMANDS, g)[i].subcommand]
    \o [i \in 1..Len(OfGroup(EXT_COMMANDS, g)) |-> OfGroup(EXT_COMMANDS, g)[i].subcommand]

help_toplevel ==
  "gh - GitHub CLI (proxy, restricted subset)\n\nAvailable command groups:\n"
    \o Concat([i \in 1..Len(HelpGroups) |->
                 "  " \o Pad12(HelpGroups[i]) \o " " \o join(SubsOf(HelpGroups[i]), ", ") \o "\n"])
    \o "\nRun 'gh <command> -h' for more information about a command.\n"
    \o "Note: This is a sandboxed proxy. Only the commands listed above are available.\n"

ExtDescription ==
  "Download workflow run logs"

ExtHelpText ==
  "gh ext run-logs <run-id> (workspace repo only)\n\n"
    \o "Download workflow run logs for the current repository.\n"
    \o "Translates to: gh api /repos/{owner}/{repo}/actions/runs/{run-id}/logs\n"

help_group(group) ==
  LET cmds == OfGroup(COMMANDS, group)
      exts == OfGroup(EXT_COMMANDS, group)
  IN  IF Len(cmds) = 0 /\ Len(exts) = 0 THEN None
      ELSE Some("gh " \o group \o " - available subcommands:\n\n"
             \o Concat([i \in 1..Len(cmds) |->
                  "  " \o Pad12(cmds[i].subcommand)
                       \o (IF cmds[i].is_write THEN " (write)" ELSE "") \o "\n"])
             \o Concat([i \in 1..Len(exts) |->
                  "  " \o Pad12(exts[i].subcommand) \o " " \o ExtDescription \o "\n"])
             \o "\nRun 'gh " \o group \o " <subcommand> -h' for more information.\n")

\* the dash of the source text " (write \u2014 workspace repo only, ...)" is
\* written here as the ASCII character `-`
help_command(group, subcommand) ==
  IF find_ext_command(group, subcommand).some THEN Some(ExtHelpText)
  ELSE LET cmd == find_command(group, subcommand)
       IN  IF ~cmd.some THEN None
           ELSE LET lines == format_flags(cmd.val.allowed_flags)
                IN  Some("gh " \o group \o " " \o subcommand
                      \o (IF cmd.val.is_write
                          THEN " (write - workspace repo only, no -R/--repo)"
                          ELSE " (read)")
                      \o "\n\nAllowed flags:\n"
                      \o Concat([i \in 1..Len(lines) |-> lines[i] \o "\n"]))

\* Option::or_else
or_else(opt, alt) ==
  IF opt.some THEN opt ELSE alt

\* mutation: the help flag is looked for in the last token only
maybe_help_last_token(args) ==
  IF Len(args) = 0 THEN Some(help_toplevel)
  ELSE IF Len(args) = 1 /\ (is_help_flag(args[1]) \/ args[1] = "help")
       THEN Some(help_toplevel)
  ELSE IF args[1] = "help" /\ Len(args) = 2
       THEN or_else(help_group(args[2]), Some(help_toplevel))
  ELSE IF args[1] = "help" /\ Len(args) >= 3
       THEN or_else(help_command(args[2], args[3]), help_group(args[2]))
  ELSE IF Len(args) = 2 /\ is_help_flag(args[2])
       THEN or_else(help_group(args[1]), Some(help_toplevel))
  ELSE IF Len(args) >= 3 /\ is_help_flag(args[Len(args)])
       THEN help_command(args[1], args[2])
  ELSE None

maybe_help(args) ==
  IF Len(args) = 0 THEN Some(help_toplevel)
  ELSE IF Len(args) = 1 /\ (is_help_flag(args[1]) \/ args[1] = "help")
       THEN Some(help_toplevel)
  ELSE IF args[1] = "help" /\ Len(args) = 2
       THEN or_else(help_group(args[2]), Some(help_toplevel))
  ELSE IF args[1] = "help" /\ Len(args) >= 3
       THEN or_else(help_command(args[2], args[3]), help_group(args[2]))
  ELSE IF Len(args) = 2 /\ is_help_flag(args[2])
       THEN or_else(help_group(args[1]), Some(help_toplevel))
  ELSE IF Len(args) >= 2 /\ (\E i \in 3..Len(args) : is_help_flag(args[i]))
       THEN help_command(args[1], args[2])
  ELSE None

(***************************************************************************)
(* The inputs a client can send.                                           *)
(***************************************************************************)
\* (group, subcommand) pairs of COMMANDS
RegisteredPairs ==
  {<<COMMANDS[i].group, COMMANDS[i].subcommand>> : i \in 1..Len(COMMANDS)}

\* argument vectors of fewer than two tokens
ShortHeads ==
  {<< >>, <<"pr">>, <<"help">>, <<"-h">>, <<"--repo">>}

\* two-token heads: the registered pairs, the extension pair and pairs outside
\* both tables
PairHeads ==
  RegisteredPairs
    \cup {<<"ext", "run-logs">>, <<"api", "repos">>, <<"pr", "merge">>,
          <<"list", "pr">>, <<"help", "pr">>, <<"help", "bogus">>,
          <<"pr", "-h">>}

\* values a client gives to a flag
Values ==
  {"open", "-x"}

\* long flag names a client writes with a value
ValuedFlags ==
  {"--state", "--repo", "--body-file", "--bogus"}

\* tokens of the form --flag=value
EqTokens ==
  {f \o "=" \o v : f \in ValuedFlags, v \in Values}

\* the tokens that can follow the head
TailTokens ==
  {"123", "open", "--", "--web", "-s", "-R", "-F", "-x", "-s=open", "-h", "--help"}
    \cup ValuedFlags \cup EqTokens

\* sequences of at most n tail tokens
TailsUpTo(n) ==
  UNION {[1..k -> TailTokens] : k \in 0..n}

\* the argument vectors of the requests of the model
Requests ==
  ShortHeads \cup {hd \o tl : hd \in PairHeads, tl \in TailsUpTo(MaxTail)}

\* the tokens that follow the head in the requests sent over the socket
SocketTailTokens ==
  {"123", "--", "--repo", "-R", "--bogus", "--state=open", "-s=open", "-h", "--help"}

\* the argument vectors of the requests sent over the socket
SocketRequests ==
  ShortHeads
    \cup {hd \o tl : hd \in PairHeads,
                     tl \in UNION {[1..k -> SocketTailTokens] : k \in 0..MaxTail}}

\* what the subprocess `gh` can do once spawned: exit with a code, or be
\* killed by a signal (ExitStatus::code() is then None)
ExitCodes ==
  {0, 1, 4}

Outcomes ==
  {Some(c) : c \in ExitCodes} \cup {None}

\* text of an io::Error and of a serde_json::Error
IoErrorText ==
  "No such file or directory (os error 2)"

ParseErrorText ==
  "expected value at line 1 column 1"

\* the byte limit of reader.take() in the connection handler
READ_CAP ==
  1048576

\* lines that do not parse as the service's Request: n bytes were read and
\* serde_json reports error; the second is a line cut by the limit
InvalidLines ==
  {[n |-> 9, error |-> ParseErrorText],
   [n |-> READ_CAP, error |-> "EOF while parsing a string at line 1 column 1048576"]}

\* the bytes a client had sent when read_line returned Err: none (the read
\* itself failed) or some that are not UTF-8
ErrorLens ==
  {0, 4}

\* captured output of a subprocess, after from_utf8_lossy
GhStdout ==
  "<stdout of gh>"

GhStderr ==
  "<stderr of gh>"

\* what `git remote get-url origin` can print, and the failure of the call
GitOutputs ==
  {"git@github.com:nsg/claude-sandbox.git\n",
   "https://github.com/nsg/claude-sandbox\n",
   "https://gitlab.com/nsg/claude-sandbox.git\n",
   ""}

SocketPath ==
  "/work/.claude-sandbox/gh-proxy.sock"

ClipSocketPath ==
  "/work/.claude-sandbox/clipboard-proxy.sock"

(***************************************************************************)
(* State.                                                                  *)
(***************************************************************************)
Handlers ==
  1..MaxHandlers

VARIABLES
  pc,         \* pc[h]: position of handler thread h
  req,        \* req[h]: Option of the args of the request h parsed
  resp,       \* resp[h]: Option of the Response h built
  sock,       \* sock[h]: what h wrote to its stream, in order
  log,        \* the log file: the messages given to log_line, in order
  procs,      \* the calls of Command::output so far, in order
  repo_slug,  \* the OnceLock REPO_SLUG of detect_repo
  trace,      \* trace[h]: the stages of handle_request h entered, in order
  vcall,      \* a direct call of reject_reason, as the unit tests make it
  service,    \* the service this process runs: "gh-proxy" or "clipboard-proxy"
  line,       \* line[h]: Option of what read_line returned to handler h
  dir,        \* the screenshots directory: its entries in read_dir order
  output,     \* output[h]: Option of the Output that Command::output returned
              \* Ok to handle_request in handler h
  main,       \* position of the main thread in run()
  wd,         \* position of the watchdog thread
  lock,       \* the Mutex of the log: Option of the thread that holds it
  partial,    \* Option of the text at the end of the log file that has no
              \* newline yet
  ppid,       \* what std::os::unix::process::parent_id() returns now
  parent_pid, \* Option of parent_pid, the id recorded at line 806
  status,     \* Option of the exit status of the service process
  path,       \* the socket path in the file system: Option of the instance
              \* whose bind created the socket file (0: one left behind
              \* by a process that is gone)
  initializer,\* Option of the thread that runs the closure of get_or_init
  sys,        \* the file-system and process calls of run(), in order
  inst,       \* inst[p]: service process p started for the socket path
  orch        \* orch[o]: orchestrator process o (main.rs)

\* the state of the process life cycle
lifecycle ==
  <<main, wd, lock, partial, ppid, parent_pid, status, path, initializer, sys, inst, orch>>

vars ==
  <<pc, req, resp, sock, log, procs, repo_slug, trace, vcall, service, line, dir, output,
    lifecycle>>

Response(exit_code, stdout, stderr) ==
  [exit_code |-> exit_code, stdout |-> stdout, stderr |-> stderr]

\* the Response of clipboard_proxy.rs
ClipResponse(exit_code, stdout_b64, stderr) ==
  [exit_code |-> exit_code, stdout_b64 |-> stdout_b64, stderr |-> stderr]

\* the response to a line that does not parse, as each service builds it
InvalidResponse(text) ==
  IF service = "gh-proxy"
  THEN Response(1, "", "gh-proxy: invalid request: " \o text)
  ELSE ClipResponse(1, "", "clipboard-proxy: invalid request: " \o text)

\* one line of the log: the message of log_line, and the thread that wrote it
LogEntry(h, message) ==
  [by |-> h, msg |-> message]

\* one call of Command::output: spawned is FALSE when the call returned Err
Proc(h, prog, argv, spawned) ==
  [by |-> h, prog |-> prog, argv |-> argv, spawned |-> spawned]

Uninit ==
  [init |-> FALSE]

Inited(v) ==
  [init |-> TRUE, val |-> v]

\* no direct call of the validator
NoCall ==
  [args |-> << >>, done |-> TRUE, result |-> None]

\* the process id of orchestrator o
OrchPid(o) ==
  100 + o

\* one call of run() outside the connection handlers
Sys(t, call, ok) ==
  [by |-> t, call |-> call, ok |-> ok]

\* the thread id of the watchdog; the main thread is 0, handler h is h
WatchdogThread ==
  MaxHandlers + 1

\* run() has reached its accept loop, lines 771-827: socket bound by this
\* process, log opened, parent id recorded, watchdog asleep
Serving ==
  /\ main = "accept"
  /\ wd = "sleep"
  /\ lock = None
  /\ partial = None
  /\ ppid = OrchPid(1)
  /\ parent_pid = Some(OrchPid(1))
  /\ status = None
  /\ path = Some(1)
  /\ initializer = None
  /\ sys = << Sys(0, "bind", TRUE), Sys(0, "open", TRUE) >>
  /\ inst = << >>
  /\ orch = << >>

\* Init: the state when run() enters its accept loop: socket bound, log
\* opened and the line "listening on" written
Init ==
  /\ pc = [h \in Handlers |-> "idle"]
  /\ req = [h \in Handlers |-> None]
  /\ resp = [h \in Handlers |-> None]
  /\ sock = [h \in Handlers |-> << >>]
  /\ log = << LogEntry(0, "listening on " \o SocketPath) >>
  /\ procs = << >>
  /\ repo_slug = Uninit
  /\ trace = [h \in Handlers |-> << >>]
  /\ vcall = NoCall
  /\ service = "gh-proxy"
  /\ line = [h \in Handlers |-> None]
  /\ dir = << >>
  /\ output = [h \in Handlers |-> None]
  /\ Serving

(***************************************************************************)
(* Extension handler run-logs.                                             *)
(***************************************************************************)
Digits ==
  {"0", "1", "2", "3", "4", "5", "6", "7", "8", "9"}

\* s.chars().all(|c| c.is_ascii_digit())
all_ascii_digit(s) ==
  \A i \in 1..Len(s) : SubSeq(s, i, i) \in Digits

Whitespace ==
  {" ", "\n", "\t", "\r"}

RECURSIVE trim_start(_)
trim_start(s) ==
  IF Len(s) > 0 /\ Head(s) \in Whitespace THEN trim_start(Tail(s)) ELSE s

RECURSIVE trim_end(_)
trim_end(s) ==
  IF Len(s) > 0 /\ SubSeq(s, Len(s), Len(s)) \in Whitespace
  THEN trim_end(IF Len(s) = 1 THEN "" ELSE SubSeq(s, 1, Len(s) - 1))
  ELSE s

\* str::trim
trim(s) ==
  trim_end(trim_start(s))

\* str::strip_prefix
strip_prefix(s, p) ==
  IF ~starts_with(s, p) THEN None
  ELSE IF Len(s) = Len(p) THEN Some("")
  ELSE Some(SubSeq(s, Len(p) + 1, Len(s)))

ends_with(s, p) ==
  Len(s) >= Len(p) /\ SubSeq(s, Len(s) - Len(p) + 1, Len(s)) = p

RECURSIVE trim_end_matches(_, _)
\* str::trim_end_matches: removes the suffix as often as it occurs
trim_end_matches(s, p) ==
  IF Len(s) >= Len(p) /\ ends_with(s, p)
  THEN trim_end_matches(IF Len(s) = Len(p) THEN "" ELSE SubSeq(s, 1, Len(s) - Len(p)), p)
  ELSE s

\* the closure of get_or_init in detect_repo, given the Option of the stdout
\* of git (None: the call failed or the output is not UTF-8)
detect_repo_init(git_stdout) ==
  IF ~git_stdout.some THEN None
  ELSE LET url == trim(git_stdout.val)
           ssh == strip_prefix(url, "git@github.com:")
           https == or_else(strip_prefix(url, "https://github.com/"),
                            strip_prefix(url, "http://github.com/"))
       IN  IF ssh.some THEN Some(trim_end_matches(ssh.val, ".git"))
           ELSE IF https.some THEN Some(trim_end_matches(https.val, ".git"))
           ELSE None

GitArgv ==
  <<"remote", "get-url", "origin">>

\* detect_repo called by thread h when the cell holds slug: the set of its
\* possible results, each with the calls it made and the cell afterwards
detect_repo(h, slug) ==
  IF slug.init
  THEN {[val |-> slug.val, calls |-> << >>, slug |-> slug]}
  ELSE {[val |-> detect_repo_init(out),
         calls |-> << Proc(h, "git", GitArgv, out.some) >>,
         slug |-> Inited(detect_repo_init(out))] :
           out \in {Some(o) : o \in GitOutputs} \cup {None}}

\* the call of `gh api <api_path>` at the end of handle_run_logs
run_logs_gh_api(h, api_path) ==
  {[resp |-> Response(IF o.some THEN o.val ELSE 1, GhStdout, GhStderr),
    calls |-> << Proc(h, "gh", <<"api", api_path>>, TRUE) >>] : o \in Outcomes}
  \cup
  {[resp |-> Response(1, "", "gh-proxy: failed to execute gh api: " \o IoErrorText),
    calls |-> << Proc(h, "gh", <<"api", api_path>>, FALSE) >>]}

\* mutation: the repository is detected before the run id is looked at
handle_run_logs_detects_first(h, args, slug) ==
  IF Len(args) = 0
  THEN {[resp |-> Response(1, "", "gh-proxy: usage: gh ext run-logs <run-id>"),
         calls |-> << >>, slug |-> slug]}
  ELSE UNION {
         IF ~all_ascii_digit(args[1])
         THEN {[resp |-> Response(1, "", "gh-proxy: invalid run id: " \o args[1]),
                calls |-> d.calls, slug |-> d.slug]}
         ELSE IF ~d.val.some
         THEN {[resp |-> Response(1, "",
                           "gh-proxy: could not detect repository from git remote"),
                calls |-> d.calls, slug |-> d.slug]}
         ELSE {[resp |-> g.resp, calls |-> d.calls \o g.calls, slug |-> d.slug] :
                 g \in run_logs_gh_api(h, "/repos/" \o d.val.val \o "/actions/runs/"
                                            \o args[1] \o "/logs")}
         : d \in detect_repo(h, slug)}

\* handle_run_logs called by thread h with the residual arguments args when
\* the cell holds slug: the set of its possible results
handle_run_logs(h, args, slug) ==
  IF Len(args) = 0
  THEN {[resp |-> Response(1, "", "gh-proxy: usage: gh ext run-logs <run-id>"),
         calls |-> << >>, slug |-> slug]}
  ELSE IF ~all_ascii_digit(args[1])
  THEN {[resp |-> Response(1, "", "gh-proxy: invalid run id: " \o args[1]),
         calls |-> << >>, slug |-> slug]}
  ELSE UNION {
         IF ~d.val.some
         THEN {[resp |-> Response(1, "",
                           "gh-proxy: could not detect repository from git remote"),
                calls |-> d.calls, slug |-> d.slug]}
         ELSE {[resp |-> g.resp, calls |-> d.calls \o g.calls, slug |-> d.slug] :
                 g \in run_logs_gh_api(h, "/repos/" \o d.val.val \o "/actions/runs/"
                                            \o args[1] \o "/logs")}
         : d \in detect_repo(h, slug)}

\* the number as format!("{}", i32) prints it
RECURSIVE NatToString(_)
NatToString(n) ==
  IF n < 10 THEN CHOOSE d \in Digits : \E k \in 0..9 : k = n /\ d = SubSeq("0123456789", k + 1, k + 1)
  ELSE NatToString(n \div 10) \o NatToString(n % 10)

IntToString(n) ==
  IF n < 0 THEN "-" \o NatToString(0 - n) ELSE NatToString(n)

(***************************************************************************)
(* The screenshot service: clipboard_proxy.rs.                             *)
(***************************************************************************)
MAX_AGE_SECS ==
  120

\* the time SystemTime::now() returns during a scan, in seconds
Clock ==
  {1000}

\* modification times around the freshness window of a scan at time now;
\* the last one lies in the future of now
Mtimes(now) ==
  {now - 300, now - MAX_AGE_SECS - 1, now - MAX_AGE_SECS, now - 30, now, now + 5}

\* the bytes of the i-th file of the directory
FileBytes(i) ==
  <<80, 78, 71, 48 + i>>

FilePath(i) ==
  "shot" \o NatToString(i) \o ".png"

\* the i-th entry as a subdirectory, and the bytes of a file just written
\* inside it
DirPath(i) ==
  "dir" \o NatToString(i)

InnerBytes(i) ==
  <<73, 78, 48 + i>>

\* what the i-th entry of a directory can be: a regular file, a
\* subdirectory (empty, or holding a file just written), a file whose
\* metadata cannot be read, a file whose contents cannot be read
EntriesAt(i, now) ==
  {[path |-> FilePath(i), is_file |-> TRUE, mtime |-> Some(t),
    data |-> Some(FileBytes(i)), inner |-> None] : t \in Mtimes(now)}
  \cup
  {[path |-> DirPath(i), is_file |-> FALSE, mtime |-> Some(t),
    data |-> None, inner |-> inside] :
     t \in Mtimes(now), inside \in {None, Some(InnerBytes(i))}}
  \cup
  {[path |-> FilePath(i), is_file |-> TRUE, mtime |-> None,
    data |-> Some(FileBytes(i)), inner |-> None]}
  \cup
  {[path |-> FilePath(i), is_file |-> TRUE, mtime |-> Some(t),
    data |-> None, inner |-> None] : t \in Mtimes(now)}

RECURSIVE ListingsOf(_, _)
\* the listings of exactly k entries
ListingsOf(k, now) ==
  IF k = 0 THEN {<< >>}
  ELSE {Append(s, e) : s \in ListingsOf(k - 1, now), e \in EntriesAt(k, now)}

\* the listings of at most n entries
ListingsUpTo(n, now) ==
  UNION {ListingsOf(k, now) : k \in 0..n}

ScreenshotsDir ==
  "/home/user/Pictures/Screenshots"

\* the states of the screenshots directory: it cannot be read, or it is
\* read at time now and lists entries
Directories ==
  {[readable |-> FALSE, now |-> now, entries |-> << >>] : now \in Clock}
  \cup
  UNION {{[readable |-> TRUE, now |-> now, entries |-> es] :
            es \in ListingsUpTo(MaxEntries, now)} : now \in Clock}

\* now.duration_since(mtime).unwrap_or(Duration::MAX) > max_age
age_exceeds(now, mtime, max_age) ==
  IF mtime > now THEN TRUE ELSE now - mtime > max_age

\* mutation: the age of a file is not looked at
qualifies_any_age(e, now) ==
  e.is_file /\ e.mtime.some

\* lines 45-63 of the loop body: the entry is a regular file whose
\* modification time can be read and whose age is within the window
qualifies(e, now) ==
  IF ~e.is_file THEN FALSE
  ELSE IF ~e.mtime.some THEN FALSE
  ELSE ~age_exceeds(now, e.mtime.val, MAX_AGE_SECS)

\* mutation: an entry as new as the best one replaces it
replaces_on_tie(newest, mtime) ==
  IF newest.some THEN mtime >= newest.val.mtime ELSE TRUE

\* line 65: newest.as_ref().map_or(true, |(best, _)| mtime > *best)
replaces(newest, mtime) ==
  IF newest.some THEN mtime > newest.val.mtime ELSE TRUE

RECURSIVE scan_loop(_, _, _, _)
\* the for loop of find_newest_screenshot from entry i on; newest is the
\* Option of (mtime, path, index) held so far
scan_loop(entries, i, now, newest) ==
  IF i > Len(entries) THEN newest
  ELSE LET e == entries[i]
       IN  IF ~qualifies(e, now) THEN scan_loop(entries, i + 1, now, newest)
           ELSE IF replaces(newest, e.mtime.val)
                THEN scan_loop(entries, i + 1, now,
                               Some([mtime |-> e.mtime.val, path |-> e.path, at |-> i]))
           ELSE scan_loop(entries, i + 1, now, newest)

\* the result of the scan of d once newest is known: lines 70-78
read_newest(d, newest) ==
  IF ~newest.some
  THEN Err("no screenshot younger than " \o IntToString(MAX_AGE_SECS)
             \o "s in " \o ScreenshotsDir)
  ELSE IF ~d.entries[newest.val.at].data.some
  THEN Err("failed to read " \o ScreenshotsDir \o "/" \o newest.val.path
             \o ": " \o IoErrorText)
  ELSE [ok |-> TRUE, val |-> d.entries[newest.val.at].data.val]

\* mutation: a subdirectory that holds a file is scanned as that file
find_newest_screenshot_descends(d) ==
  IF ~d.readable
  THEN Err("cannot read " \o ScreenshotsDir \o ": " \o IoErrorText)
  ELSE LET flat == [readable |-> TRUE, now |-> d.now,
                    entries |-> [k \in 1..Len(d.entries) |->
                      IF ~d.entries[k].is_file /\ d.entries[k].inner.some
                      THEN [d.entries[k] EXCEPT !.is_file = TRUE, !.data = d.entries[k].inner]
                      ELSE d.entries[k]]]
       IN  read_newest(flat, scan_loop(flat.entries, 1, flat.now, None))

\* find_newest_screenshot on the directory d: Ok(bytes) or Err(message)
find_newest_screenshot(d) ==
  IF ~d.readable
  THEN Err("cannot read " \o ScreenshotsDir \o ": " \o IoErrorText)
  ELSE read_newest(d, scan_loop(d.entries, 1, d.now, None))

Base64Alphabet ==
  "ABCDEFGHIJKLMNOPQRSTUVWXYZabcdefghijklmnopqrstuvwxyz0123456789+/"

\* the k-th character of the alphabet, k in 0..63
Base64Char(k) ==
  SubSeq(Base64Alphabet, k + 1, k + 1)

RECURSIVE base64_encode(_)
\* base64::engine::general_purpose::STANDARD.encode
base64_encode(bytes) ==
  IF Len(bytes) = 0 THEN ""
  ELSE IF Len(bytes) = 1
  THEN LET n == bytes[1] * 65536
       IN  Base64Char(n \div 262144) \o Base64Char((n \div 4096) % 64) \o "=="
  ELSE IF Len(bytes) = 2
  THEN LET n == bytes[1] * 65536 + bytes[2] * 256
       IN  Base64Char(n \div 262144) \o Base64Char((n \div 4096) % 64)
             \o Base64Char((n \div 64) % 64) \o "="
  ELSE LET n == bytes[1] * 65536 + bytes[2] * 256 + bytes[3]
       IN  Base64Char(n \div 262144) \o Base64Char((n \div 4096) % 64)
             \o Base64Char((n \div 64) % 64) \o Base64Char(n % 64)
             \o base64_encode(SubSeq(bytes, 4, Len(bytes)))

(***************************************************************************)
(* The connection handler thread: run(), lines 829-855, and                *)
(* handle_request.                                                         *)
(***************************************************************************)
\* the accept loop takes a connection and spawns handler thread h
Accept(h) ==
  /\ pc[h] = "idle"
  /\ pc' = [pc EXCEPT ![h] = "AwaitingLine"]
  /\ UNCHANGED <<req, resp, sock, log, procs, repo_slug, trace, vcall, service, line, dir, output, lifecycle>>

\* what read_line returned: Ok(n) or Err, with the number n of bytes the
\* client had sent
ReadResult(ok, n) ==
  [ok |-> ok, n |-> n]

RECURSIVE Quoted(_)
\* the elements of args as JSON strings
Quoted(args) ==
  IF args = << >> THEN << >>
  ELSE << "\"" \o Head(args) \o "\"" >> \o Quoted(Tail(args))

\* the line a client writes for a gh-proxy Request: serde_json of
\* struct Request { args } and a newline
RequestLine(args) ==
  "{\"args\":[" \o join(Quoted(args), ",") \o "]}\n"

\* mutation: an empty read is answered like an invalid request
ReadEof_answers(h) ==
  /\ pc[h] = "AwaitingLine"
  /\ line' = [line EXCEPT ![h] = Some(ReadResult(TRUE, 0))]
  /\ resp' = [resp EXCEPT ![h] = Some(InvalidResponse(ParseErrorText))]
  /\ pc' = [pc EXCEPT ![h] = "respond"]
  /\ UNCHANGED <<req, sock, log, procs, repo_slug, trace, vcall, service, dir, output, lifecycle>>

\* read_line returns Ok(0): the handler returns without a response
ReadEof(h) ==
  /\ pc[h] = "AwaitingLine"
  /\ line' = [line EXCEPT ![h] = Some(ReadResult(TRUE, 0))]
  /\ pc' = [pc EXCEPT ![h] = "closed"]
  /\ UNCHANGED <<req, resp, sock, log, procs, repo_slug, trace, vcall, service, dir, output, lifecycle>>

\* read_line returns Err (the bytes are not UTF-8, or the read failed): the
\* `if let Ok(n)` does not match and the handler returns without a response
ReadError(h, n) ==
  /\ pc[h] = "AwaitingLine"
  /\ line' = [line EXCEPT ![h] = Some(ReadResult(FALSE, n))]
  /\ pc' = [pc EXCEPT ![h] = "closed"]
  /\ UNCHANGED <<req, resp, sock, log, procs, repo_slug, trace, vcall, service, dir, output, lifecycle>>

\* mutation: the parse failure ends the process, as an unwrap() of the parse
\* result followed by an abort would
ReadInvalid_aborts(h, bad) ==
  /\ pc[h] = "AwaitingLine"
  /\ line' = [line EXCEPT ![h] = Some(ReadResult(TRUE, bad.n))]
  /\ log' = Append(log, LogEntry(h, "INVALID (" \o bad.error \o ")"))
  /\ resp' = [resp EXCEPT ![h] = Some(InvalidResponse(bad.error))]
  /\ pc' = [g \in Handlers |-> IF g = h THEN "respond" ELSE "closed"]
  /\ UNCHANGED <<req, sock, procs, repo_slug, trace, vcall, service, dir, output, lifecycle>>

\* the line is not a Request: INVALID is logged and the response built
ReadInvalid(h, bad) ==
  /\ pc[h] = "AwaitingLine"
  /\ line' = [line EXCEPT ![h] = Some(ReadResult(TRUE, bad.n))]
  /\ log' = Append(log, LogEntry(h, "INVALID (" \o bad.error \o ")"))
  /\ resp' = [resp EXCEPT ![h] = Some(InvalidResponse(bad.error))]
  /\ pc' = [pc EXCEPT ![h] = "respond"]
  /\ UNCHANGED <<req, sock, procs, repo_slug, trace, vcall, service, dir, output, lifecycle>>

\* the line parses as a Request with the argument vector args:
\* handle_request is entered
ReadRequest(h, args) ==
  /\ pc[h] = "AwaitingLine"
  /\ service = "gh-proxy"
  /\ line' = [line EXCEPT ![h] = Some(ReadResult(TRUE, Len(RequestLine(args))))]
  /\ req' = [req EXCEPT ![h] = Some(args)]
  /\ pc' = [pc EXCEPT ![h] = "help"]
  /\ UNCHANGED <<resp, sock, log, procs, repo_slug, trace, vcall, service, dir, output, lifecycle>>

cmd_str(h) ==
  join(req[h].val, " ")

\* mutation: the help response is built but handle_request does not return
HelpStage_no_return(h) ==
  /\ pc[h] = "help"
  /\ trace' = [trace EXCEPT ![h] = Append(@, "maybe_help")]
  /\ LET help_text == maybe_help(req[h].val)
     IN  IF help_text.some
         THEN /\ log' = Append(log, LogEntry(h, "HELP    gh " \o cmd_str(h)))
              /\ resp' = [resp EXCEPT ![h] = Some(Response(0, help_text.val, ""))]
              /\ pc' = [pc EXCEPT ![h] = "ext"]
         ELSE /\ pc' = [pc EXCEPT ![h] = "ext"]
              /\ UNCHANGED <<log, resp>>
  /\ UNCHANGED <<req, sock, procs, repo_slug, vcall, service, line, dir, output, lifecycle>>

\* handle_request, lines 717-724
HelpStage(h) ==
  /\ pc[h] = "help"
  /\ trace' = [trace EXCEPT ![h] = Append(@, "maybe_help")]
  /\ LET help_text == maybe_help(req[h].val)
     IN  IF help_text.some
         THEN /\ log' = Append(log, LogEntry(h, "HELP    gh " \o cmd_str(h)))
              /\ resp' = [resp EXCEPT ![h] = Some(Response(0, help_text.val, ""))]
              /\ pc' = [pc EXCEPT ![h] = "respond"]
         ELSE /\ pc' = [pc EXCEPT ![h] = "ext"]
              /\ UNCHANGED <<log, resp>>
  /\ UNCHANGED <<req, sock, procs, repo_slug, vcall, service, line, dir, output, lifecycle>>

\* maybe_ext_command finds no extension command: handle_request goes on
ExtNoMatch(h) ==
  /\ pc[h] = "ext"
  /\ LET args == req[h].val
     IN  IF Len(args) < 2 THEN TRUE
         ELSE ~find_ext_command(args[1], args[2]).some
  /\ trace' = [trace EXCEPT ![h] = Append(@, "maybe_ext_command")]
  /\ pc' = [pc EXCEPT ![h] = "validate"]
  /\ UNCHANGED <<req, resp, sock, log, procs, repo_slug, vcall, service, line, dir, output, lifecycle>>

\* maybe_ext_command finds the extension command and calls its handler;
\* handle_request, lines 726-737
ExtStage(h) ==
  /\ pc[h] = "ext"
  /\ LET args == req[h].val
     IN  /\ Len(args) >= 2
         /\ find_ext_command(args[1], args[2]).some
         /\ \E r \in handle_run_logs(h, SliceFrom(args, 2), repo_slug) :
              /\ procs' = procs \o r.calls
              /\ repo_slug' = r.slug
              /\ resp' = [resp EXCEPT ![h] = Some(r.resp)]
              /\ log' = Append(log, LogEntry(h,
                          (IF r.resp.exit_code = 0 THEN "EXT" ELSE "EXT_ERR")
                            \o " gh " \o cmd_str(h) \o " -> "
                            \o IntToString(r.resp.exit_code)))
  /\ trace' = [trace EXCEPT ![h] = @ \o <<"maybe_ext_command", "handle_run_logs">>]
  /\ pc' = [pc EXCEPT ![h] = "respond"]
  /\ UNCHANGED <<req, sock, vcall, service, line, dir, output, lifecycle>>

\* mutation: the denial is logged but the handler goes on to the executor
ValidateStage_falls_through(h) ==
  /\ pc[h] = "validate"
  /\ trace' = [trace EXCEPT ![h] = Append(@, "reject_reason")]
  /\ LET reason == reject_reason(req[h].val)
     IN  IF reason.some
         THEN /\ log' = Append(log, LogEntry(h, "DENIED  gh " \o cmd_str(h)
                                                  \o " (" \o reason.val \o ")"))
              /\ resp' = [resp EXCEPT ![h] =
                            Some(Response(1, "", "gh-proxy: " \o reason.val))]
              /\ pc' = [pc EXCEPT ![h] = "exec"]
         ELSE /\ log' = Append(log, LogEntry(h, "ALLOWED gh " \o cmd_str(h)))
              /\ pc' = [pc EXCEPT ![h] = "exec"]
              /\ UNCHANGED resp
  /\ UNCHANGED <<req, sock, procs, repo_slug, vcall, service, line, dir, output, lifecycle>>

\* handle_request, lines 739-748
ValidateStage(h) ==
  /\ pc[h] = "validate"
  /\ trace' = [trace EXCEPT ![h] = Append(@, "reject_reason")]
  /\ LET reason == reject_reason(req[h].val)
     IN  IF reason.some
         THEN /\ log' = Append(log, LogEntry(h, "DENIED  gh " \o cmd_str(h)
                                                  \o " (" \o reason.val \o ")"))
              /\ resp' = [resp EXCEPT ![h] =
                            Some(Response(1, "", "gh-proxy: " \o reason.val))]
              /\ pc' = [pc EXCEPT ![h] = "respond"]
         ELSE /\ log' = Append(log, LogEntry(h, "ALLOWED gh " \o cmd_str(h)))
              /\ pc' = [pc EXCEPT ![h] = "exec"]
              /\ UNCHANGED resp
  /\ UNCHANGED <<req, sock, procs, repo_slug, vcall, service, line, dir, output, lifecycle>>

\* mutation: a failed spawn is reported like an exit of gh with code 1
ExecSpawnError_as_exit(h) ==
  /\ pc[h] = "exec"
  /\ trace' = [trace EXCEPT ![h] = Append(@, "Command::output")]
  /\ procs' = Append(procs, Proc(h, "gh", req[h].val, FALSE))
  /\ log' = Append(log, LogEntry(h, "EXIT    gh " \o cmd_str(h) \o " -> 1"))
  /\ resp' = [resp EXCEPT ![h] = Some(Response(1, "", IoErrorText))]
  /\ pc' = [pc EXCEPT ![h] = "respond"]
  /\ UNCHANGED <<req, sock, repo_slug, vcall, service, line, dir, output, lifecycle>>

\* Command::new("gh").args(&req.args).output() returns Err: lines 760-767
ExecSpawnError(h) ==
  /\ pc[h] = "exec"
  /\ trace' = [trace EXCEPT ![h] = Append(@, "Command::output")]
  /\ procs' = Append(procs, Proc(h, "gh", req[h].val, FALSE))
  /\ log' = Append(log, LogEntry(h, "ERROR   gh " \o cmd_str(h)
                                      \o " (" \o IoErrorText \o ")"))
  /\ resp' = [resp EXCEPT ![h] =
                Some(Response(1, "", "gh-proxy: failed to execute gh: " \o IoErrorText))]
  /\ pc' = [pc EXCEPT ![h] = "respond"]
  /\ UNCHANGED <<req, sock, repo_slug, vcall, service, line, dir, output, lifecycle>>

\* the subprocess gh is spawned with the caller's arguments; the handler
\* waits in output()
ExecSpawn(h) ==
  /\ pc[h] = "exec"
  /\ trace' = [trace EXCEPT ![h] = Append(@, "Command::output")]
  /\ procs' = Append(procs, Proc(h, "gh", req[h].val, TRUE))
  /\ pc' = [pc EXCEPT ![h] = "wait"]
  /\ UNCHANGED <<req, resp, sock, log, repo_slug, vcall, service, line, dir, output, lifecycle>>

\* mutation: the exit of gh is answered without its EXIT line
ExecExit_unlogged(h, o) ==
  /\ pc[h] = "wait"
  /\ output' = [output EXCEPT ![h] = Some([status |-> [code |-> o]])]
  /\ LET exit_code == IF o.some THEN o.val ELSE 1
     IN  resp' = [resp EXCEPT ![h] = Some(Response(exit_code, GhStdout, GhStderr))]
  /\ pc' = [pc EXCEPT ![h] = "respond"]
  /\ UNCHANGED <<req, sock, log, procs, repo_slug, trace, vcall, service, line, dir, lifecycle>>

\* the subprocess ends with outcome o and output() returns Ok: lines 751-759
ExecExit(h, o) ==
  /\ pc[h] = "wait"
  /\ output' = [output EXCEPT ![h] = Some([status |-> [code |-> o]])]
  /\ LET exit_code == IF o.some THEN o.val ELSE 1
     IN  /\ log' = Append(log, LogEntry(h, "EXIT    gh " \o cmd_str(h) \o " -> "
                                             \o IntToString(exit_code)))
         /\ resp' = [resp EXCEPT ![h] = Some(Response(exit_code, GhStdout, GhStderr))]
  /\ pc' = [pc EXCEPT ![h] = "respond"]
  /\ UNCHANGED <<req, sock, procs, repo_slug, trace, vcall, service, line, dir, lifecycle>>

\* lines 852-853: the response and a newline are written, the thread ends
\* and the stream is dropped
WriteResponse(h) ==
  /\ pc[h] = "respond"
  /\ sock' = [sock EXCEPT ![h] = @ \o << resp[h].val, "\n" >>]
  /\ pc' = [pc EXCEPT ![h] = "closed"]
  /\ UNCHANGED <<req, resp, log, procs, repo_slug, trace, vcall, service, line, dir, output, lifecycle>>

\* handler thread h, reading its request from the set reqs
Handler(h, reqs) ==
  \/ Accept(h)
  \/ ReadEof(h)
  \/ (\E n \in ErrorLens : ReadError(h, n))
  \/ (\E bad \in InvalidLines : ReadInvalid(h, bad))
  \/ (pc[h] = "AwaitingLine" /\ \E args \in reqs : ReadRequest(h, args))
  \/ HelpStage(h)
  \/ ExtNoMatch(h)
  \/ ExtStage(h)
  \/ ValidateStage(h)
  \/ ExecSpawnError(h)
  \/ ExecSpawn(h)
  \/ (pc[h] = "wait" /\ \E o \in Outcomes : ExecExit(h, o))
  \/ WriteResponse(h)

\* one connection handled from accept to close
Next ==
  \E h \in {1} : Handler(h, SocketRequests)

Spec ==
  Init /\ [][Next]_vars

(***************************************************************************)
(* The connection handler thread of the screenshot service:                *)
(* clipboard_proxy.rs, run(), lines 175-200, and handle_request.           *)
(***************************************************************************)
\* the command names a client sends
ClipCommands ==
  {"read_image", "write_image", "READ_IMAGE", ""}

\* Init of the screenshot service: run() enters its accept loop
InitClipboard ==
  /\ pc = [h \in Handlers |-> "idle"]
  /\ req = [h \in Handlers |-> None]
  /\ resp = [h \in Handlers |-> None]
  /\ sock = [h \in Handlers |-> << >>]
  /\ log = << LogEntry(0, "listening on " \o ClipSocketPath) >>
  /\ procs = << >>
  /\ repo_slug = Uninit
  /\ trace = [h \in Handlers |-> << >>]
  /\ vcall = NoCall
  /\ service = "clipboard-proxy"
  /\ line = [h \in Handlers |-> None]
  /\ dir \in Directories
  /\ output = [h \in Handlers |-> None]
  /\ Serving

\* the line a client writes for a clipboard-proxy Request
ClipRequestLine(command) ==
  "{\"command\":\"" \o command \o "\"}\n"

\* the line parses as a Request with the command name command
ClipReadRequest(h, command) ==
  /\ pc[h] = "AwaitingLine"
  /\ service = "clipboard-proxy"
  /\ line' = [line EXCEPT ![h] = Some(ReadResult(TRUE, Len(ClipRequestLine(command))))]
  /\ req' = [req EXCEPT ![h] = Some(command)]
  /\ pc' = [pc EXCEPT ![h] = "handle"]
  /\ UNCHANGED <<resp, sock, log, procs, repo_slug, trace, vcall, service, dir, output, lifecycle>>

\* handle_request, lines 82-89: the command is not read_image
ClipDenied(h) ==
  /\ pc[h] = "handle"
  /\ req[h].val # "read_image"
  /\ trace' = [trace EXCEPT ![h] = Append(@, "handle_request")]
  /\ log' = Append(log, LogEntry(h, "DENIED  unknown command: " \o req[h].val))
  /\ resp' = [resp EXCEPT ![h] =
                Some(ClipResponse(1, "", "clipboard-proxy: unknown command: " \o req[h].val))]
  /\ pc' = [pc EXCEPT ![h] = "respond"]
  /\ UNCHANGED <<req, sock, procs, repo_slug, vcall, service, line, dir, output, lifecycle>>

\* mutation: the command name is compared without regard to case
ClipRequest_any_case(h) ==
  /\ pc[h] = "handle"
  /\ req[h].val \in {"read_image", "READ_IMAGE"}
  /\ trace' = [trace EXCEPT ![h] = Append(@, "handle_request")]
  /\ log' = Append(log, LogEntry(h, "REQUEST read_image"))
  /\ pc' = [pc EXCEPT ![h] = "scan"]
  /\ UNCHANGED <<req, resp, sock, procs, repo_slug, vcall, service, line, dir, output, lifecycle>>

\* handle_request, line 91: REQUEST is logged
ClipRequest(h) ==
  /\ pc[h] = "handle"
  /\ req[h].val = "read_image"
  /\ trace' = [trace EXCEPT ![h] = Append(@, "handle_request")]
  /\ log' = Append(log, LogEntry(h, "REQUEST read_image"))
  /\ pc' = [pc EXCEPT ![h] = "scan"]
  /\ UNCHANGED <<req, resp, sock, procs, repo_slug, vcall, service, line, dir, output, lifecycle>>

\* handle_request, lines 93-115: the directory is scanned and the response
\* built
ClipScan(h) ==
  /\ pc[h] = "scan"
  /\ trace' = [trace EXCEPT ![h] = Append(@, "find_newest_screenshot")]
  /\ LET found == find_newest_screenshot(dir)
     IN  IF found.ok
         THEN LET encoded == base64_encode(found.val)
              IN  /\ log' = Append(log, LogEntry(h,
                              "OK      read_image (" \o IntToString(Len(found.val))
                                \o " bytes, " \o IntToString(Len(encoded)) \o " b64)"))
                  /\ resp' = [resp EXCEPT ![h] = Some(ClipResponse(0, encoded, ""))]
         ELSE /\ log' = Append(log, LogEntry(h, "ERROR   read_image: " \o found.err))
              /\ resp' = [resp EXCEPT ![h] =
                            Some(ClipResponse(1, "", "clipboard-proxy: " \o found.err))]
  /\ pc' = [pc EXCEPT ![h] = "respond"]
  /\ UNCHANGED <<req, sock, procs, repo_slug, vcall, service, line, dir, output, lifecycle>>

\* handler thread h of the screenshot service
ClipHandler(h) ==
  \/ Accept(h)
  \/ ReadEof(h)
  \/ (\E n \in ErrorLens : ReadError(h, n))
  \/ (\E bad \in InvalidLines : ReadInvalid(h, bad))
  \/ (\E command \in ClipCommands : ClipReadRequest(h, command))
  \/ ClipDenied(h)
  \/ ClipRequest(h)
  \/ ClipScan(h)
  \/ WriteResponse(h)

NextClipboard ==
  \E h \in {1} : ClipHandler(h)

SpecClipboard ==
  InitClipboard /\ [][NextClipboard]_vars

(***************************************************************************)
(* Either service: one process of gh-proxy or one of clipboard-proxy.      *)
(***************************************************************************)
InitServices ==
  Init \/ InitClipboard

NextServices ==
  Next \/ NextClipboard

SpecServices ==
  InitServices /\ [][NextServices]_vars

(***************************************************************************)
(* The validator called directly with an argument vector, as the unit      *)
(* tests of gh_proxy.rs call it.                                           *)
(***************************************************************************)
InitValidator ==
  /\ pc = [h \in Handlers |-> "idle"]
  /\ req = [h \in Handlers |-> None]
  /\ resp = [h \in Handlers |-> None]
  /\ sock = [h \in Handlers |-> << >>]
  /\ log = << >>
  /\ procs = << >>
  /\ repo_slug = Uninit
  /\ trace = [h \in Handlers |-> << >>]
  /\ vcall \in {[args |-> a, done |-> FALSE, result |-> None] : a \in Requests}
  /\ service = "gh-proxy"
  /\ line = [h \in Handlers |-> None]
  /\ dir = << >>
  /\ output = [h \in Handlers |-> None]
  /\ Serving

\* reject_reason(&args) is evaluated and returns
CallRejectReason ==
  /\ ~vcall.done
  /\ vcall' = [vcall EXCEPT !.done = TRUE, !.result = reject_reason(vcall.args)]
  /\ UNCHANGED <<pc, req, resp, sock, log, procs, repo_slug, trace, service, line, dir, output, lifecycle>>

NextValidator ==
  CallRejectReason

SpecValidator ==
  InitValidator /\ [][NextValidator]_vars

(***************************************************************************)
(* The server: the accept loop with its handler threads running            *)
(* concurrently, for either service.                                       *)
(***************************************************************************)
\* the requests the concurrent clients of gh-proxy send: a help request, a
\* denied one, an allowed one and an extension command
ServerRequests ==
  {<<"help">>, <<"pr", "merge">>, <<"pr", "list">>, <<"ext", "run-logs", "123">>}

\* the screenshots directory while the concurrent clients are served
ServerDirectories ==
  {d \in Directories : Len(d.entries) <= 1}

InitServer ==
  \/ Init
  \/ /\ InitClipboard
     /\ dir \in ServerDirectories

\* any handler thread takes a step
NextServer ==
  \E h \in Handlers : Handler(h, ServerRequests) \/ ClipHandler(h)

SpecServer ==
  InitServer /\ [][NextServer]_vars

(***************************************************************************)
(* maybe_ext_command called directly with an argument vector, as the unit  *)
(* tests of gh_proxy.rs call it.                                           *)
(***************************************************************************)
\* maybe_ext_command called by thread h when the cell holds slug: the set of
\* its possible results, resp being the Option it returns
maybe_ext_command(h, args, slug) ==
  IF Len(args) < 2
  THEN {[resp |-> None, calls |-> << >>, slug |-> slug]}
  ELSE IF ~find_ext_command(args[1], args[2]).some
  THEN {[resp |-> None, calls |-> << >>, slug |-> slug]}
  ELSE {[resp |-> Some(r.resp), calls |-> r.calls, slug |-> r.slug] :
          r \in handle_run_logs(h, SliceFrom(args, 2), slug)}

\* what a caller writes where the run id belongs
RunIdTokens ==
  {"", "123", "007", "12a", "../etc/passwd", "--help"}

\* the argument vectors given to maybe_ext_command
ExtRequests ==
  {<<"ext">>, <<"pr", "list">>, <<"run", "logs", "123">>}
    \cup {<<"ext", "run-logs">> \o tl :
            tl \in UNION {[1..k -> RunIdTokens] : k \in 0..MaxTail}}

\* what the cell REPO_SLUG holds when the call is made
SlugStates ==
  {Uninit, Inited(Some("nsg/claude-sandbox")), Inited(None)}

InitExt ==
  /\ pc = [h \in Handlers |-> "idle"]
  /\ req = [h \in Handlers |-> None]
  /\ resp = [h \in Handlers |-> None]
  /\ sock = [h \in Handlers |-> << >>]
  /\ log = << >>
  /\ procs = << >>
  /\ repo_slug \in SlugStates
  /\ trace = [h \in Handlers |-> << >>]
  /\ vcall \in {[args |-> a, done |-> FALSE, result |-> None] : a \in ExtRequests}
  /\ service = "gh-proxy"
  /\ line = [h \in Handlers |-> None]
  /\ dir = << >>
  /\ output = [h \in Handlers |-> None]
  /\ Serving

\* maybe_ext_command(&args) is evaluated and returns
CallMaybeExtCommand ==
  /\ ~vcall.done
  /\ \E r \in maybe_ext_command(0, vcall.args, repo_slug) :
       /\ vcall' = [vcall EXCEPT !.done = TRUE, !.result = r.resp]
       /\ procs' = procs \o r.calls
       /\ repo_slug' = r.slug
  /\ UNCHANGED <<pc, req, resp, sock, log, trace, service, line, dir, output, lifecycle>>

NextExt ==
  CallMaybeExtCommand

SpecExt ==
  InitExt /\ [][NextExt]_vars

(***************************************************************************)
(* maybe_help called directly with an argument vector, as the unit tests   *)
(* of gh_proxy.rs call it.                                                 *)
(***************************************************************************)
\* the tokens that follow the head in the vectors given to maybe_help
HelpTailTokens ==
  {"-h", "--help", "123", "--bogus"}

\* the argument vectors given to maybe_help
HelpRequests ==
  ShortHeads
    \cup {hd \o tl : hd \in PairHeads,
                     tl \in UNION {[1..k -> HelpTailTokens] : k \in 0..MaxTail}}

InitHelp ==
  /\ pc = [h \in Handlers |-> "idle"]
  /\ req = [h \in Handlers |-> None]
  /\ resp = [h \in Handlers |-> None]
  /\ sock = [h \in Handlers |-> << >>]
  /\ log = << >>
  /\ procs = << >>
  /\ repo_slug = Uninit
  /\ trace = [h \in Handlers |-> << >>]
  /\ vcall \in {[args |-> a, done |-> FALSE, result |-> None] : a \in HelpRequests}
  /\ service = "gh-proxy"
  /\ line = [h \in Handlers |-> None]
  /\ dir = << >>
  /\ output = [h \in Handlers |-> None]
  /\ Serving

\* maybe_help(&args) is evaluated and returns
CallMaybeHelp ==
  /\ ~vcall.done
  /\ vcall' = [vcall EXCEPT !.done = TRUE, !.result = maybe_help(vcall.args)]
  /\ UNCHANGED <<pc, req, resp, sock, log, procs, repo_slug, trace, service, line, dir, output, lifecycle>>

NextHelp ==
  CallMaybeHelp

SpecHelp ==
  InitHelp /\ [][NextHelp]_vars

(***************************************************************************)
(* The service process at the level of its threads: run() from its first   *)
(* line, the watchdog thread, the accept loop and the handler threads,     *)
(* with log_line as a lock, a write of the text and a write of the         *)
(* newline, and get_or_init as a cell with one initializer.                *)
(***************************************************************************)
\* the requests the clients of the process send
ProcessRequests ==
  {<<"pr", "list">>}

\* how a subprocess of the process ends
ProcessOutcomes ==
  {Some(0)}

\* the state at the first line of run(): the socket path is absent or was
\* left behind by an earlier process
InitProcess ==
  /\ pc = [h \in Handlers |-> "idle"]
  /\ req = [h \in Handlers |-> None]
  /\ resp = [h \in Handlers |-> None]
  /\ sock = [h \in Handlers |-> << >>]
  /\ log = << >>
  /\ procs = << >>
  /\ repo_slug = Uninit
  /\ trace = [h \in Handlers |-> << >>]
  /\ vcall = NoCall
  /\ service = "gh-proxy"
  /\ line = [h \in Handlers |-> None]
  /\ dir = << >>
  /\ output = [h \in Handlers |-> None]
  /\ main = "remove_stale"
  /\ wd = "none"
  /\ lock = None
  /\ partial = None
  /\ ppid = OrchPid(1)
  /\ parent_pid = None
  /\ status = None
  /\ path \in {None, Some(0)}
  /\ initializer = None
  /\ sys = << >>
  /\ inst = << >>
  /\ orch = << >>

\* the process has not terminated
Alive ==
  status = None

\* log_line, line 709: thread t takes the lock and writeln! writes the text
LogText(t, message) ==
  /\ lock = None
  /\ lock' = Some(t)
  /\ partial' = Some(LogEntry(t, message))
  /\ UNCHANGED log

\* log_line, lines 710-711: writeln! writes the newline and the guard is
\* dropped
LogNewline(t) ==
  /\ lock = Some(t)
  /\ log' = Append(log, partial.val)
  /\ partial' = None
  /\ lock' = None

\* lines 775-777: a path that exists is unlinked, whoever made it; the result
\* of remove_file is ignored
RemoveStale(ok) ==
  /\ Alive
  /\ main = "remove_stale"
  /\ IF path.some
     THEN path' = IF ok THEN None ELSE path
     ELSE ok /\ UNCHANGED path
  /\ main' = "bind"
  /\ UNCHANGED <<pc, req, resp, sock, log, procs, repo_slug, trace, vcall, service, line,
                 dir, output, wd, lock, partial, ppid, parent_pid, status, initializer,
                 sys, inst, orch>>

\* mutation: a failed bind is tried again
Bind_retries(ok) ==
  /\ Alive
  /\ main = "bind"
  /\ ok => path = None
  /\ sys' = Append(sys, Sys(0, "bind", ok))
  /\ IF ok
     THEN /\ path' = Some(1)
          /\ main' = "open_log"
     ELSE /\ Len(sys) < 3
          /\ UNCHANGED <<path, main>>
  /\ UNCHANGED <<pc, req, resp, sock, log, procs, repo_slug, trace, vcall, service, line,
                 dir, output, wd, lock, partial, ppid, parent_pid, status, initializer,
                 inst, orch>>

\* lines 785-788: UnixListener::bind; it fails when the path exists, and may
\* fail for another reason; on failure the process exits with status 1
Bind(ok) ==
  /\ Alive
  /\ main = "bind"
  /\ ok => path = None
  /\ sys' = Append(sys, Sys(0, "bind", ok))
  /\ IF ok
     THEN /\ path' = Some(1)
          /\ main' = "open_log"
          /\ UNCHANGED status
     ELSE /\ status' = Some(1)
          /\ main' = "exited"
          /\ UNCHANGED path
  /\ UNCHANGED <<pc, req, resp, sock, log, procs, repo_slug, trace, vcall, service, line,
                 dir, output, wd, lock, partial, ppid, parent_pid, initializer, inst, orch>>

\* lines 790-799: the log file is opened; on failure the process exits with
\* status 1
OpenLog(ok) ==
  /\ Alive
  /\ main = "open_log"
  /\ sys' = Append(sys, Sys(0, "open", ok))
  /\ IF ok
     THEN /\ main' = "log_listening"
          /\ UNCHANGED status
     ELSE /\ status' = Some(1)
          /\ main' = "exited"
  /\ UNCHANGED <<pc, req, resp, sock, log, procs, repo_slug, trace, vcall, service, line,
                 dir, output, wd, lock, partial, ppid, parent_pid, path, initializer,
                 inst, orch>>

\* line 801
LogListening ==
  /\ Alive
  /\ \/ /\ main = "log_listening"
        /\ LogText(0, "listening on " \o SocketPath)
        /\ main' = "log_listening_nl"
     \/ /\ main = "log_listening_nl"
        /\ LogNewline(0)
        /\ main' = "parent_id"
  /\ UNCHANGED <<pc, req, resp, sock, procs, repo_slug, trace, vcall, service, line,
                 dir, output, wd, ppid, parent_pid, status, path, initializer, sys,
                 inst, orch>>

\* line 806: the parent id is recorded
RecordParent ==
  /\ Alive
  /\ main = "parent_id"
  /\ parent_pid' = Some(ppid)
  /\ main' = "spawn_watchdog"
  /\ UNCHANGED <<pc, req, resp, sock, log, procs, repo_slug, trace, vcall, service, line,
                 dir, output, wd, lock, partial, ppid, status, path, initializer, sys,
                 inst, orch>>

\* line 809: the watchdog thread is spawned; the main thread enters the
\* accept loop
SpawnWatchdog ==
  /\ Alive
  /\ main = "spawn_watchdog"
  /\ wd' = "sleep"
  /\ main' = "accept"
  /\ UNCHANGED <<pc, req, resp, sock, log, procs, repo_slug, trace, vcall, service, line,
                 dir, output, lock, partial, ppid, parent_pid, status, path, initializer,
                 sys, inst, orch>>

\* the parent of the process exits: the process is reparented to init (1)
ParentExit ==
  /\ Alive
  /\ ppid # 1
  /\ ppid' = 1
  /\ UNCHANGED <<pc, req, resp, sock, log, procs, repo_slug, trace, vcall, service, line,
                 dir, output, main, wd, lock, partial, parent_pid, status, path,
                 initializer, sys, inst, orch>>

\* the line the watchdog logs, lines 814-820
WatchdogMessage ==
  "parent " \o NatToString(parent_pid.val) \o " exited (ppid now "
    \o NatToString(ppid) \o "), shutting down"

\* lines 811-813: the watchdog wakes up and finds another parent id
WatchdogPoll ==
  /\ Alive
  /\ wd = "sleep"
  /\ ppid # parent_pid.val
  /\ wd' = "log"
  /\ UNCHANGED <<pc, req, resp, sock, log, procs, repo_slug, trace, vcall, service, line,
                 dir, output, main, lock, partial, ppid, parent_pid, status, path,
                 initializer, sys, inst, orch>>

\* lines 814-820
WatchdogLog ==
  /\ Alive
  /\ \/ /\ wd = "log"
        /\ LogText(WatchdogThread, WatchdogMessage)
        /\ wd' = "log_nl"
     \/ /\ wd = "log_nl"
        /\ LogNewline(WatchdogThread)
        /\ wd' = "remove"
  /\ UNCHANGED <<pc, req, resp, sock, procs, repo_slug, trace, vcall, service, line,
                 dir, output, main, ppid, parent_pid, status, path, initializer, sys,
                 inst, orch>>

\* mutation: the watchdog leaves the socket file in place
WatchdogRemove_skipped ==
  /\ Alive
  /\ wd = "remove"
  /\ wd' = "exit"
  /\ UNCHANGED <<pc, req, resp, sock, log, procs, repo_slug, trace, vcall, service, line,
                 dir, output, main, lock, partial, ppid, parent_pid, status, path,
                 initializer, sys, inst, orch>>

\* line 821: whatever is at the socket path is unlinked
WatchdogRemove ==
  /\ Alive
  /\ wd = "remove"
  /\ path' = None
  /\ sys' = Append(sys, Sys(WatchdogThread, "remove_file", path.some))
  /\ wd' = "exit"
  /\ UNCHANGED <<pc, req, resp, sock, log, procs, repo_slug, trace, vcall, service, line,
                 dir, output, main, lock, partial, ppid, parent_pid, status, initializer,
                 inst, orch>>

\* line 822: process::exit(0) ends every thread of the process
WatchdogExit ==
  /\ Alive
  /\ wd = "exit"
  /\ status' = Some(0)
  /\ sys' = Append(sys, Sys(WatchdogThread, "exit", TRUE))
  /\ wd' = "done"
  /\ UNCHANGED <<pc, req, resp, sock, log, procs, repo_slug, trace, vcall, service, line,
                 dir, output, main, lock, partial, ppid, parent_pid, path, initializer,
                 inst, orch>>

\* the watchdog thread
Watchdog ==
  \/ WatchdogPoll
  \/ WatchdogLog
  \/ WatchdogRemove
  \/ WatchdogExit

\* mutation: the accept loop handles one connection at a time
AcceptConnection_serial(h) ==
  /\ Alive
  /\ main = "accept"
  /\ pc[h] = "idle"
  /\ \A g \in Handlers : g < h => pc[g] # "idle"
  /\ \A g \in Handlers : pc[g] \in {"idle", "closed"}
  /\ pc' = [pc EXCEPT ![h] = "AwaitingLine"]
  /\ UNCHANGED <<req, resp, sock, log, procs, repo_slug, trace, vcall, service, line,
                 dir, output, lifecycle>>

\* lines 827-831: incoming() yields a stream and handler thread h is spawned
\* for it
AcceptConnection(h) ==
  /\ Alive
  /\ main = "accept"
  /\ pc[h] = "idle"
  /\ \A g \in Handlers : g < h => pc[g] # "idle"
  /\ pc' = [pc EXCEPT ![h] = "AwaitingLine"]
  /\ UNCHANGED <<req, resp, sock, log, procs, repo_slug, trace, vcall, service, line,
                 dir, output, lifecycle>>

\* the main thread of run()
Main ==
  \/ (\E ok \in BOOLEAN : RemoveStale(ok))
  \/ (\E ok \in BOOLEAN : Bind(ok))
  \/ (\E ok \in BOOLEAN : OpenLog(ok))
  \/ LogListening
  \/ RecordParent
  \/ SpawnWatchdog
  \/ (\E h \in Handlers : AcceptConnection(h))

\* handler thread h reads its line: Ok(0), lines 837-840
ThreadReadEof(h) ==
  /\ Alive
  /\ ReadEof(h)

\* handler thread h reads a line that parses as the Request args, line 841,
\* and handle_request runs up to its first call of log_line or of
\* detect_repo: maybe_help, maybe_ext_command with lines 433-452 of
\* handle_run_logs, and reject_reason
ThreadReadRequest(h, args) ==
  /\ Alive
  /\ pc[h] = "AwaitingLine"
  /\ line' = [line EXCEPT ![h] = Some(ReadResult(TRUE, Len(RequestLine(args))))]
  /\ req' = [req EXCEPT ![h] = Some(args)]
  /\ LET help_text == maybe_help(args)
         is_ext == IF Len(args) < 2 THEN FALSE
                   ELSE find_ext_command(args[1], args[2]).some
         rest == SliceFrom(args, 2)
         reason == reject_reason(args)
     IN  IF help_text.some
         THEN /\ resp' = [resp EXCEPT ![h] = Some(Response(0, help_text.val, ""))]
              /\ trace' = [trace EXCEPT ![h] = Append(@, "maybe_help")]
              /\ pc' = [pc EXCEPT ![h] = "log_help"]
         ELSE IF is_ext
         THEN /\ trace' = [trace EXCEPT ![h] =
                             @ \o <<"maybe_help", "maybe_ext_command", "handle_run_logs">>]
              /\ IF Len(rest) = 0
                 THEN /\ resp' = [resp EXCEPT ![h] = Some(Response(1, "",
                                     "gh-proxy: usage: gh ext run-logs <run-id>"))]
                      /\ pc' = [pc EXCEPT ![h] = "log_ext"]
                 ELSE IF ~all_ascii_digit(rest[1])
                 THEN /\ resp' = [resp EXCEPT ![h] = Some(Response(1, "",
                                     "gh-proxy: invalid run id: " \o rest[1]))]
                      /\ pc' = [pc EXCEPT ![h] = "log_ext"]
                 ELSE /\ pc' = [pc EXCEPT ![h] = "detect"]
                      /\ UNCHANGED resp
         ELSE /\ trace' = [trace EXCEPT ![h] =
                             @ \o <<"maybe_help", "maybe_ext_command", "reject_reason">>]
              /\ IF reason.some
                 THEN /\ resp' = [resp EXCEPT ![h] =
                                    Some(Response(1, "", "gh-proxy: " \o reason.val))]
                      /\ pc' = [pc EXCEPT ![h] = "log_denied"]
                 ELSE /\ pc' = [pc EXCEPT ![h] = "log_allowed"]
                      /\ UNCHANGED resp
  /\ UNCHANGED <<sock, log, procs, repo_slug, vcall, service, dir, output, lifecycle>>

\* a call of log_line by handler thread h at position at, which goes on
\* at position next
ThreadLogLine(h, at, message, next) ==
  /\ Alive
  /\ \/ /\ pc[h] = at
        /\ LogText(h, message)
        /\ pc' = [pc EXCEPT ![h] = at \o "_nl"]
     \/ /\ pc[h] = at \o "_nl"
        /\ LogNewline(h)
        /\ pc' = [pc EXCEPT ![h] = next]
  /\ UNCHANGED <<req, resp, sock, procs, repo_slug, trace, vcall, service, line, dir,
                 output, main, wd, ppid, parent_pid, status, path, initializer, sys,
                 inst, orch>>

\* handle_request, line 718
ThreadLogHelp(h) ==
  ThreadLogLine(h, "log_help", "HELP    gh " \o cmd_str(h), "respond")

\* handle_request, lines 727-735
ThreadLogExt(h) ==
  ThreadLogLine(h, "log_ext",
    (IF resp[h].val.exit_code = 0 THEN "EXT" ELSE "EXT_ERR") \o " gh "
      \o cmd_str(h) \o " -> " \o IntToString(resp[h].val.exit_code), "respond")

\* handle_request, line 740
ThreadLogDenied(h) ==
  ThreadLogLine(h, "log_denied",
    "DENIED  gh " \o cmd_str(h) \o " (" \o reject_reason(req[h].val).val \o ")",
    "respond")

\* handle_request, line 748
ThreadLogAllowed(h) ==
  ThreadLogLine(h, "log_allowed", "ALLOWED gh " \o cmd_str(h), "exec")

\* handle_request, line 753
ThreadLogExit(h) ==
  ThreadLogLine(h, "log_exit",
    "EXIT    gh " \o cmd_str(h) \o " -> " \o IntToString(resp[h].val.exit_code),
    "respond")

\* handle_request, line 761
ThreadLogError(h) ==
  ThreadLogLine(h, "log_error",
    "ERROR   gh " \o cmd_str(h) \o " (" \o IoErrorText \o ")", "respond")

\* line 750: gh is spawned and the thread waits in output(), or the spawn
\* fails
ThreadExecSpawn(h, spawned) ==
  /\ Alive
  /\ pc[h] = "exec"
  /\ trace' = [trace EXCEPT ![h] = Append(@, "Command::output")]
  /\ procs' = Append(procs, Proc(h, "gh", req[h].val, spawned))
  /\ IF spawned
     THEN /\ pc' = [pc EXCEPT ![h] = "wait"]
          /\ UNCHANGED resp
     ELSE /\ resp' = [resp EXCEPT ![h] = Some(Response(1, "",
                         "gh-proxy: failed to execute gh: " \o IoErrorText))]
          /\ pc' = [pc EXCEPT ![h] = "log_error"]
  /\ UNCHANGED <<req, sock, log, repo_slug, vcall, service, line, dir, output, lifecycle>>

\* lines 751-759 up to log_line: gh ends with outcome o
ThreadExecExit(h, o) ==
  /\ Alive
  /\ pc[h] = "wait"
  /\ output' = [output EXCEPT ![h] = Some([status |-> [code |-> o]])]
  /\ resp' = [resp EXCEPT ![h] =
                Some(Response(IF o.some THEN o.val ELSE 1, GhStdout, GhStderr))]
  /\ pc' = [pc EXCEPT ![h] = "log_exit"]
  /\ UNCHANGED <<req, sock, log, procs, repo_slug, trace, vcall, service, line, dir,
                 lifecycle>>

\* lines 852-853
ThreadWriteResponse(h) ==
  /\ Alive
  /\ WriteResponse(h)

\* handler thread h of the process, serving a gh command
HandlerThread(h) ==
  \/ ThreadReadEof(h)
  \/ (pc[h] = "AwaitingLine" /\ \E args \in ProcessRequests : ThreadReadRequest(h, args))
  \/ ThreadLogAllowed(h)
  \/ ThreadExecSpawn(h, TRUE)
  \/ (\E o \in ProcessOutcomes : ThreadExecExit(h, o))
  \/ ThreadLogExit(h)
  \/ ThreadWriteResponse(h)

NextProcess ==
  \/ Main
  \/ Watchdog
  \/ ParentExit
  \/ (\E h \in Handlers : HandlerThread(h))

\* the service process from its start to its end
SpecProcess ==
  InitProcess /\ [][NextProcess]_vars

\* a value of detect_repo as a text
ShowOption(v) ==
  IF v.some THEN "Some(" \o v.val \o ")" ELSE "None"

\* thread h returns from detect_repo with the value of the cell
DetectReturn(h, slug) ==
  /\ trace' = [trace EXCEPT ![h] = Append(@, "detect_repo -> " \o ShowOption(slug.val))]
  /\ pc' = [pc EXCEPT ![h] = "detected"]

\* mutation: only a detected repository is taken from the cell; after a
\* failed detection git is run again
ThreadDetectCached_retries_failure(h) ==
  /\ Alive
  /\ pc[h] = "detect"
  /\ repo_slug.init
  /\ DetectReturn(h, repo_slug)
  /\ procs' = IF repo_slug.val.some THEN procs
              ELSE Append(procs, Proc(h, "git", GitArgv, TRUE))
  /\ UNCHANGED <<req, resp, sock, log, repo_slug, vcall, service, line, dir,
                 output, lifecycle>>

\* detect_repo, lines 401-402: the cell is initialized and get_or_init
\* returns its value
ThreadDetectCached(h) ==
  /\ Alive
  /\ pc[h] = "detect"
  /\ repo_slug.init
  /\ DetectReturn(h, repo_slug)
  /\ UNCHANGED <<req, resp, sock, log, procs, repo_slug, vcall, service, line, dir,
                 output, lifecycle>>

\* mutation: a cache that is tested and then filled, without the
\* initialization lock of a OnceLock
ThreadDetectInit_unguarded(h, spawned) ==
  /\ Alive
  /\ pc[h] = "detect"
  /\ ~repo_slug.init
  /\ procs' = Append(procs, Proc(h, "git", GitArgv, spawned))
  /\ IF spawned
     THEN /\ initializer' = Some(h)
          /\ pc' = [pc EXCEPT ![h] = "git_wait"]
          /\ UNCHANGED <<repo_slug, trace>>
     ELSE /\ repo_slug' = Inited(None)
          /\ initializer' = None
          /\ DetectReturn(h, Inited(None))
  /\ UNCHANGED <<req, resp, sock, log, vcall, service, line, dir, output, main, wd, lock,
                 partial, ppid, parent_pid, status, path, sys, inst, orch>>

\* detect_repo, lines 402-407: the cell is empty and no thread is
\* initializing it, so thread h runs the closure: git is spawned and the
\* thread waits in output(), or the spawn fails and None is stored.  While
\* one thread runs the closure the other callers of get_or_init wait.
ThreadDetectInit(h, spawned) ==
  /\ Alive
  /\ pc[h] = "detect"
  /\ ~repo_slug.init
  /\ initializer = None
  /\ procs' = Append(procs, Proc(h, "git", GitArgv, spawned))
  /\ IF spawned
     THEN /\ initializer' = Some(h)
          /\ pc' = [pc EXCEPT ![h] = "git_wait"]
          /\ UNCHANGED <<repo_slug, trace>>
     ELSE /\ repo_slug' = Inited(None)
          /\ initializer' = None
          /\ DetectReturn(h, Inited(None))
  /\ UNCHANGED <<req, resp, sock, log, vcall, service, line, dir, output, main, wd, lock,
                 partial, ppid, parent_pid, status, path, sys, inst, orch>>

\* detect_repo, lines 408-422: git has ended, the closure returns and its
\* value is stored
ThreadGitExit(h, out) ==
  /\ Alive
  /\ pc[h] = "git_wait"
  /\ repo_slug' = Inited(detect_repo_init(out))
  /\ initializer' = None
  /\ DetectReturn(h, Inited(detect_repo_init(out)))
  /\ UNCHANGED <<req, resp, sock, log, procs, vcall, service, line, dir, output, main, wd,
                 lock, partial, ppid, parent_pid, status, path, sys, inst, orch>>

\* handle_run_logs, lines 453-476: without a repository the request is
\* refused; with one, gh api is spawned or the spawn fails
ThreadRunLogsApi(h, spawned) ==
  /\ Alive
  /\ pc[h] = "detected"
  /\ IF ~repo_slug.val.some
     THEN /\ spawned
          /\ resp' = [resp EXCEPT ![h] = Some(Response(1, "",
                         "gh-proxy: could not detect repository from git remote"))]
          /\ pc' = [pc EXCEPT ![h] = "log_ext"]
          /\ UNCHANGED procs
     ELSE /\ procs' = Append(procs, Proc(h, "gh",
                         <<"api", "/repos/" \o repo_slug.val.val \o "/actions/runs/"
                                    \o req[h].val[3] \o "/logs">>, spawned))
          /\ IF spawned
             THEN /\ pc' = [pc EXCEPT ![h] = "api_wait"]
                  /\ UNCHANGED resp
             ELSE /\ resp' = [resp EXCEPT ![h] = Some(Response(1, "",
                                 "gh-proxy: failed to execute gh api: " \o IoErrorText))]
                  /\ pc' = [pc EXCEPT ![h] = "log_ext"]
  /\ UNCHANGED <<req, sock, log, repo_slug, trace, vcall, service, line, dir, output,
                 lifecycle>>

\* handle_run_logs, lines 467-471: gh api has ended with outcome o
ThreadApiExit(h, o) ==
  /\ Alive
  /\ pc[h] = "api_wait"
  /\ resp' = [resp EXCEPT ![h] =
                Some(Response(IF o.some THEN o.val ELSE 1, GhStdout, GhStderr))]
  /\ pc' = [pc EXCEPT ![h] = "log_ext"]
  /\ UNCHANGED <<req, sock, log, procs, repo_slug, trace, vcall, service, line, dir,
                 output, lifecycle>>

\* the requests of the clients while run-logs requests are served
RunLogsRequests ==
  {<<"ext", "run-logs", "123">>, <<"ext", "run-logs", "12a">>, <<"pr", "merge">>,
   <<"help">>, <<"pr", "list">>}

\* how gh api ends
RunLogsOutcomes ==
  {Some(0), Some(1)}

\* what git prints, and None for output that is not UTF-8
RunLogsGitOutputs ==
  {Some("git@github.com:nsg/claude-sandbox.git\n"), Some(""), None}

\* handler thread h of the process, serving run-logs among other requests
RunLogsThread(h) ==
  \/ (pc[h] = "AwaitingLine" /\ \E args \in RunLogsRequests : ThreadReadRequest(h, args))
  \/ ThreadLogHelp(h)
  \/ ThreadLogDenied(h)
  \/ ThreadLogAllowed(h)
  \/ ThreadExecSpawn(h, FALSE)
  \/ ThreadLogError(h)
  \/ ThreadDetectCached(h)
  \/ (\E spawned \in BOOLEAN : ThreadDetectInit(h, spawned))
  \/ (pc[h] = "git_wait" /\ \E out \in RunLogsGitOutputs : ThreadGitExit(h, out))
  \/ (\E spawned \in BOOLEAN : ThreadRunLogsApi(h, spawned))
  \/ (pc[h] = "api_wait" /\ \E o \in RunLogsOutcomes : ThreadApiExit(h, o))
  \/ ThreadLogExt(h)
  \/ ThreadWriteResponse(h)

NextRunLogs ==
  \/ (\E h \in Handlers : AcceptConnection(h))
  \/ (\E h \in Handlers : RunLogsThread(h))

\* the process in its accept loop, serving concurrent run-logs requests
SpecRunLogs ==
  Init /\ [][NextRunLogs]_vars

\* the fairness of the threads of the process that the watchdog depends on:
\* the watchdog thread is scheduled, the thread that spawns it is, and a
\* thread that is inside writeln! with the lock goes on to release it.  No
\* progress is assumed of a handler that waits for its client or for its
\* subprocess.
FairProcess ==
  /\ WF_vars(Watchdog)
  /\ WF_vars(SpawnWatchdog)
  /\ WF_vars(NextProcess /\ lock # None /\ lock' = None)

SpecProcessFair ==
  SpecProcess /\ FairProcess

\* the fairness of the accept loop and of the handler thread spawned last:
\* its client sends, its subprocess ends and the thread is scheduled; a
\* thread inside writeln! goes on to release the lock.  No progress is
\* assumed of the other handlers.
FairLastHandler ==
  /\ WF_vars(AcceptConnection(MaxHandlers))
  /\ WF_vars(HandlerThread(MaxHandlers))
  /\ WF_vars(NextProcess /\ lock # None /\ lock' = None)

SpecProcessLast ==
  SpecProcess /\ FairLastHandler

(***************************************************************************)
(* The orchestrators of one workspace (main.rs: ensure_gh_proxy and         *)
(* run_container) and the service processes they start for the workspace's  *)
(* socket path.  Orchestrator o starts at most one service process, which   *)
(* is instance o.  Each step of run() is taken whole here.                  *)
(***************************************************************************)
Orchestrators ==
  1..MaxOrchestrators

\* a service process that was not started
NotStarted ==
  [main |-> "none", wd |-> "none", ppid |-> 0, parent_pid |-> None, status |-> None,
   bound |-> FALSE]

InitInstances ==
  /\ pc = [h \in Handlers |-> "idle"]
  /\ req = [h \in Handlers |-> None]
  /\ resp = [h \in Handlers |-> None]
  /\ sock = [h \in Handlers |-> << >>]
  /\ log = << >>
  /\ procs = << >>
  /\ repo_slug = Uninit
  /\ trace = [h \in Handlers |-> << >>]
  /\ vcall = NoCall
  /\ service = "gh-proxy"
  /\ line = [h \in Handlers |-> None]
  /\ dir = << >>
  /\ output = [h \in Handlers |-> None]
  /\ main = "none"
  /\ wd = "none"
  /\ lock = None
  /\ partial = None
  /\ ppid = 0
  /\ parent_pid = None
  /\ status = None
  /\ path \in {None, Some(0)}
  /\ initializer = None
  /\ sys = << >>
  /\ inst = [p \in Orchestrators |-> NotStarted]
  /\ orch = [o \in Orchestrators |-> "ensure_gh_proxy"]

\* instance p holds a listening socket: it has bound one and has not ended
Listening(p) ==
  /\ inst[p].bound
  /\ inst[p].status = None

\* UnixStream::connect to the socket path succeeds: the path is the socket
\* file of a process that is listening
Connectable ==
  IF path.some
  THEN IF path.val \in Orchestrators THEN Listening(path.val) ELSE FALSE
  ELSE FALSE

\* what the orchestrators and the instances leave unchanged
ServiceUnchanged ==
  UNCHANGED <<pc, req, resp, sock, procs, repo_slug, trace, vcall, service, line, dir,
              output, main, wd, lock, partial, ppid, parent_pid, status, initializer, sys>>

\* ensure_gh_proxy, lines 311-316: a socket that exists and accepts a
\* connection means that the proxy is running
OrchProbe(o) ==
  /\ orch[o] = "ensure_gh_proxy"
  /\ orch' = [orch EXCEPT ![o] = IF Connectable THEN "run_container" ELSE "spawn"]
  /\ UNCHANGED <<log, path, inst>>
  /\ ServiceUnchanged

\* ensure_gh_proxy, lines 319-333: the service process is spawned as a child
\* of the orchestrator
OrchSpawn(o) ==
  /\ orch[o] = "spawn"
  /\ inst' = [inst EXCEPT ![o] = [NotStarted EXCEPT !.main = "remove_stale",
                                                     !.ppid = OrchPid(o)]]
  /\ orch' = [orch EXCEPT ![o] = "poll"]
  /\ UNCHANGED <<log, path>>
  /\ ServiceUnchanged

\* ensure_gh_proxy, lines 336-343: the loop ends when the path exists or
\* after 30 polls
OrchPoll(o) ==
  /\ orch[o] = "poll"
  /\ orch' = [orch EXCEPT ![o] = "run_container"]
  /\ UNCHANGED <<log, path, inst>>
  /\ ServiceUnchanged

\* run_container, lines 451-452: the container ends and the orchestrator
\* exits; its children get init (1) as their parent
OrchExit(o) ==
  /\ orch[o] = "run_container"
  /\ orch' = [orch EXCEPT ![o] = "exited"]
  /\ inst' = [p \in Orchestrators |->
                IF inst[p].ppid = OrchPid(o) /\ inst[p].status = None
                THEN [inst[p] EXCEPT !.ppid = 1]
                ELSE inst[p]]
  /\ UNCHANGED <<log, path>>
  /\ ServiceUnchanged

\* orchestrator o
Orchestrator(o) ==
  \/ OrchProbe(o)
  \/ OrchSpawn(o)
  \/ OrchPoll(o)
  \/ OrchExit(o)

\* run(), lines 775-777, in instance p: a path that exists is unlinked
InstRemoveStale(p) ==
  /\ inst[p].status = None
  /\ inst[p].main = "remove_stale"
  /\ path' = None
  /\ inst' = [inst EXCEPT ![p].main = "bind"]
  /\ UNCHANGED <<log, orch>>
  /\ ServiceUnchanged

\* run(), lines 785-788, in instance p: the bind creates the socket file, or
\* fails because the path exists and the process exits with status 1
InstBind(p) ==
  /\ inst[p].status = None
  /\ inst[p].main = "bind"
  /\ IF path = None
     THEN /\ path' = Some(p)
          /\ inst' = [inst EXCEPT ![p].main = "open_log", ![p].bound = TRUE]
     ELSE /\ inst' = [inst EXCEPT ![p].main = "exited", ![p].status = Some(1)]
          /\ UNCHANGED path
  /\ UNCHANGED <<log, orch>>
  /\ ServiceUnchanged

\* run(), lines 790-825, in instance p: the log is opened, "listening on" is
\* logged, the parent id is recorded and the watchdog spawned
InstStart(p) ==
  /\ inst[p].status = None
  /\ inst[p].main = "open_log"
  /\ log' = Append(log, LogEntry(p, "listening on " \o SocketPath))
  /\ inst' = [inst EXCEPT ![p].main = "accept", ![p].wd = "sleep",
                          ![p].parent_pid = Some(inst[p].ppid)]
  /\ UNCHANGED <<path, orch>>
  /\ ServiceUnchanged

\* lines 811-820 in instance p: the watchdog finds another parent id and
\* logs it
InstWatchdogPoll(p) ==
  /\ inst[p].status = None
  /\ inst[p].wd = "sleep"
  /\ inst[p].ppid # inst[p].parent_pid.val
  /\ log' = Append(log, LogEntry(p, "parent " \o NatToString(inst[p].parent_pid.val)
                     \o " exited (ppid now " \o NatToString(inst[p].ppid)
                     \o "), shutting down"))
  /\ inst' = [inst EXCEPT ![p].wd = "remove"]
  /\ UNCHANGED <<path, orch>>
  /\ ServiceUnchanged

\* line 821 in instance p: whatever is at the socket path is unlinked
InstWatchdogRemove(p) ==
  /\ inst[p].status = None
  /\ inst[p].wd = "remove"
  /\ path' = None
  /\ inst' = [inst EXCEPT ![p].wd = "exit"]
  /\ UNCHANGED <<log, orch>>
  /\ ServiceUnchanged

\* line 822 in instance p
InstWatchdogExit(p) ==
  /\ inst[p].status = None
  /\ inst[p].wd = "exit"
  /\ inst' = [inst EXCEPT ![p].wd = "done", ![p].main = "exited", ![p].status = Some(0)]
  /\ UNCHANGED <<log, path, orch>>
  /\ ServiceUnchanged

\* service process p
Instance(p) ==
  \/ InstRemoveStale(p)
  \/ InstBind(p)
  \/ InstStart(p)
  \/ InstWatchdogPoll(p)
  \/ InstWatchdogRemove(p)
  \/ InstWatchdogExit(p)

NextInstances ==
  \E o \in Orchestrators : Orchestrator(o) \/ Instance(o)

\* the orchestrators of a workspace and their service processes
SpecInstances ==
  InitInstances /\ [][NextInstances]_vars

(***************************************************************************)
(* Properties.                                                             *)
(***************************************************************************)
\* the request of handler h is a help request
IsHelpRequest(args) ==
  maybe_help(args).some

\* the request names an extension command
IsExtRequest(args) ==
  IF Len(args) < 2 THEN FALSE ELSE find_ext_command(args[1], args[2]).some

\* the positions of seq whose entry satisfies Test
Positions(seq, Test(_)) ==
  {i \in 1..Len(seq) : Test(seq[i])}

\* the log lines handler h wrote whose message begins with tag
LinesOf(h, tag) ==
  SelectSeq(log, LAMBDA l : l.by = h /\ starts_with(l.msg, tag))

\* the calls of Command::output handler h made
CallsOf(h) ==
  SelectSeq(procs, LAMBDA p : p.by = h)

\* handler h parsed a request that is neither help nor extension and that
\* the validator denies
DeniedCase(h) ==
  /\ req[h].some
  /\ ~IsHelpRequest(req[h].val)
  /\ ~IsExtRequest(req[h].val)
  /\ reject_reason(req[h].val).some

\* C1: a request that is neither a help request nor an extension command and
\* that reject_reason denies is answered with exit_code 1, empty stdout and
\* stderr "gh-proxy: " + reason; exactly one DENIED line is logged for it and
\* no subprocess is spawned for it.
C1_DeniedResponse ==
  \A h \in Handlers :
    DeniedCase(h) =>
      LET reason == reject_reason(req[h].val).val
          denial == Response(1, "", "gh-proxy: " \o reason)
      IN  /\ Len(CallsOf(h)) = 0
          /\ pc[h] \notin {"exec", "wait"}
          /\ pc[h] \in {"respond", "closed"} =>
               /\ resp[h] = Some(denial)
               /\ LinesOf(h, "DENIED") =
                    << LogEntry(h, "DENIED  gh " \o join(req[h].val, " ")
                                     \o " (" \o reason \o ")") >>
               /\ Len(LinesOf(h, "ALLOWED")) = 0
          /\ pc[h] = "closed" => sock[h] = << denial, "\n" >>

\* C1 witness: a denied request has been answered and its connection closed
C1_Witness ==
  \E h \in Handlers :
    /\ DeniedCase(h)
    /\ pc[h] = "closed"
    /\ Len(sock[h]) = 2
    /\ sock[h][1].exit_code = 1
    /\ Len(LinesOf(h, "DENIED")) = 1

\* the first two tokens of args are a (group, subcommand) pair of COMMANDS
IsRegistered(args) ==
  IF Len(args) < 2 THEN FALSE ELSE <<args[1], args[2]>> \in RegisteredPairs

\* C2: reject_reason denies every argument vector whose first two tokens are
\* not a (group, subcommand) pair of COMMANDS, vectors of fewer than two
\* tokens included, whatever the remaining tokens are.
C2_UnregisteredDenied ==
  (vcall.done /\ vcall # NoCall /\ ~IsRegistered(vcall.args)) =>
    /\ vcall.result.some
    /\ starts_with(vcall.result.val, "command not allowed: gh ")

\* C2 witness: a vector with an unregistered pair and further tokens was
\* validated and denied
C2_Witness ==
  /\ vcall.done
  /\ Len(vcall.args) > 2
  /\ ~IsRegistered(vcall.args)
  /\ vcall.args[1] = "pr"
  /\ vcall.result.some

(***************************************************************************)
(* Properties of the validator, stated on a finished direct call.          *)
(***************************************************************************)
\* a direct call of reject_reason on a registered command has returned
ValidatedRegistered ==
  vcall.done /\ vcall # NoCall /\ IsRegistered(vcall.args)

\* the CommandDef the first two tokens of args name
CmdOf(args) ==
  CHOOSE c \in {COMMANDS[i] : i \in 1..Len(COMMANDS)} :
    c.group = args[1] /\ c.subcommand = args[2]

\* the set of the flags of an allowlist
FlagSet(allowed_flags) ==
  {allowed_flags[i] : i \in 1..Len(allowed_flags)}

\* the tokens after the (group, subcommand) pair
TailOf(args) ==
  SubSeq(args, 3, Len(args))

\* the positions of tail before the first literal `--`
BeforeSeparator(tail) ==
  {i \in 1..Len(tail) : \A j \in 1..i : tail[j] # "--"}

\* the repository-override and read-body-from-file flags
BlockedOnWrite ==
  {"--repo", "-R", "--body-file", "-F"}

\* the token is one of those flags, bare or in the form --flag=value
IsBlockedToken(tok) ==
  \/ tok \in BlockedOnWrite
  \/ \E f \in BlockedOnWrite : starts_with(f, "--") /\ starts_with(tok, f \o "=")

\* C3: no write command has --repo, -R, --body-file or -F in its
\* allowed_flags, and reject_reason denies every vector of a write command in
\* which a token before any `--` is one of those flags, bare or as
\* --flag=value.
C3_WriteBlocksRepoAndBodyFile ==
  (ValidatedRegistered /\ CmdOf(vcall.args).is_write) =>
    /\ FlagSet(CmdOf(vcall.args).allowed_flags) \cap BlockedOnWrite = {}
    /\ (\E i \in BeforeSeparator(TailOf(vcall.args)) :
          IsBlockedToken(TailOf(vcall.args)[i]))
         => vcall.result.some

\* C3 witness: pr comment with --repo=value after a positional was denied
C3_Witness ==
  /\ ValidatedRegistered
  /\ vcall.args = <<"pr", "comment", "123", "--repo=open">>
  /\ vcall.result.some

\* the denial that names flag for the command of args
FlagDenial(args, flag) ==
  Some("flag not allowed for gh " \o args[1] \o " " \o args[2] \o ": " \o flag)

\* C4: every read command has --repo and -R in its allowed_flags, so that
\* `-R v`, `--repo v` and `--repo=v` given to a read command are not denied
\* for that flag.
C4_ReadAllowsRepo ==
  (ValidatedRegistered /\ ~CmdOf(vcall.args).is_write) =>
    /\ {"--repo", "-R"} \subseteq FlagSet(CmdOf(vcall.args).allowed_flags)
    /\ vcall.result # FlagDenial(vcall.args, "--repo")
    /\ vcall.result # FlagDenial(vcall.args, "-R")
    /\ \A i \in 1..Len(TailOf(vcall.args)) :
         starts_with(TailOf(vcall.args)[i], "--repo=")
           => vcall.result # FlagDenial(vcall.args, TailOf(vcall.args)[i])
    /\ (\A i \in 1..Len(TailOf(vcall.args)) :
          \/ TailOf(vcall.args)[i] \in {"--repo", "-R", "open"}
          \/ starts_with(TailOf(vcall.args)[i], "--repo="))
         => ~vcall.result.some

\* C4 witness: pr diff with `-R open` and with --repo=open was allowed
C4_Witness ==
  /\ ValidatedRegistered
  /\ vcall.args \in {<<"pr", "diff", "-R", "open">>, <<"pr", "diff", "--repo=open">>}
  /\ ~vcall.result.some

\* the positions of the tail, before the first `--`, of the tokens that begin
\* with `-` and whose flag name is not in the allowlist of the command
Offending(args) ==
  {i \in BeforeSeparator(TailOf(args)) :
     /\ starts_with(TailOf(args)[i], "-")
     /\ extract_flag(TailOf(args)[i]) \notin FlagSet(CmdOf(args).allowed_flags)}

\* the least element of a non-empty set of positions
Least(S) ==
  CHOOSE i \in S : \A j \in S : i <= j

\* C5: when a token of args[2..] before the first `--` begins with `-` and
\* its flag name is not in the allowed_flags of the command, reject_reason
\* denies with "flag not allowed for gh <group> <subcommand>: <flag>" naming
\* the flag name of the leftmost such token.
C5_LeftmostUnknownFlagNamed ==
  (ValidatedRegistered /\ Offending(vcall.args) # {}) =>
    vcall.result =
      FlagDenial(vcall.args,
                 extract_flag(TailOf(vcall.args)[Least(Offending(vcall.args))]))

\* C5 witness: two different flags outside the allowlist, the first was named
C5_Witness ==
  /\ ValidatedRegistered
  /\ vcall.args = <<"pr", "view", "--bogus=open", "-x">>
  /\ vcall.result = Some("flag not allowed for gh pr view: --bogus")

\* the token has the form --flag=value
IsEqToken(tok) ==
  starts_with(tok, "--") /\ find(tok, "=").some /\ find(tok, "=").val > 3

\* the part of the token before its first `=`
BeforeEq(tok) ==
  IF ~find(tok, "=").some THEN tok
  ELSE IF find(tok, "=").val = 1 THEN ""
  ELSE SubSeq(tok, 1, find(tok, "=").val - 1)

\* the part of the token after its first `=`
AfterEq(tok) ==
  IF find(tok, "=").val = Len(tok) THEN ""
  ELSE SubSeq(tok, find(tok, "=").val + 1, Len(tok))

\* the vector [group, sub, f, v] for the vector [group, sub, f=v]
Separated(args) ==
  <<args[1], args[2], BeforeEq(args[3]), AfterEq(args[3])>>

\* C6 as claimed: for every registered command, long flag f and value v,
\* values that begin with `-` included, reject_reason gives the same verdict
\* for [group, sub, f=v] and for [group, sub, f, v].
C6_Original ==
  (ValidatedRegistered /\ Len(vcall.args) = 3 /\ IsEqToken(vcall.args[3])) =>
    vcall.result.some = reject_reason(Separated(vcall.args)).some

\* C6 amended: for every registered command, long flag f and value v that
\* does not begin with `-`, reject_reason gives the same verdict, with the
\* same reason, for [group, sub, f=v] and for [group, sub, f, v]; in the form
\* f=v a value that begins with `-` is not inspected, as a token of its own
\* it is validated as a flag.
C6_EqualsFormSameVerdict ==
  (ValidatedRegistered /\ Len(vcall.args) = 3 /\ IsEqToken(vcall.args[3])) =>
    /\ ~starts_with(AfterEq(vcall.args[3]), "-")
         => vcall.result = reject_reason(Separated(vcall.args))
    /\ vcall.result.some
         = (BeforeEq(vcall.args[3]) \notin FlagSet(CmdOf(vcall.args).allowed_flags))

\* C6 witness: --state=open on a command that allows --state was allowed, as
\* `--state open` is
C6_Witness ==
  /\ ValidatedRegistered
  /\ vcall.args = <<"issue", "list", "--state=open">>
  /\ ~vcall.result.some
  /\ ~reject_reason(<<"issue", "list", "--state", "open">>).some

\* the flag name of the claim C7: any token cut at its first `=`
NameCutAtEq(tok) ==
  BeforeEq(tok)

\* the flag name of the code: only a token that begins with `--` is cut
NameCutIfLong(tok) ==
  IF starts_with(tok, "--") THEN BeforeEq(tok) ELSE tok

\* some token before the separator begins with `-` and has a name, derived by
\* Name, outside the allowlist of the command
SomeFlagOutside(args, Name(_)) ==
  \E i \in BeforeSeparator(TailOf(args)) :
    /\ starts_with(TailOf(args)[i], "-")
    /\ Name(TailOf(args)[i]) \notin FlagSet(CmdOf(args).allowed_flags)

\* C7 as claimed: every token before the separator that begins with `-`,
\* short or long, is allowed exactly when the token cut at its first `=` is
\* in the allowed_flags of the command (so -s=open is validated as -s).
C7_Original ==
  ValidatedRegistered =>
    (vcall.result.some <=> SomeFlagOutside(vcall.args, NameCutAtEq))

\* C7 amended: a token before the separator that begins with `--` is allowed
\* exactly when the token cut at its first `=` is in the allowed_flags of the
\* command; a token that begins with a single `-` is not cut and is allowed
\* exactly when the whole token is in allowed_flags (so -s=open is validated
\* as -s=open and denied).
C7_FlagNameOnlyLongCut ==
  ValidatedRegistered =>
    (vcall.result.some <=> SomeFlagOutside(vcall.args, NameCutIfLong))

\* C7 witness: -s=open on a command that allows -s was denied, the denial
\* names the whole token
C7_Witness ==
  /\ ValidatedRegistered
  /\ vcall.args = <<"pr", "list", "-s=open">>
  /\ "-s" \in FlagSet(CmdOf(vcall.args).allowed_flags)
  /\ vcall.result = Some("flag not allowed for gh pr list: -s=open")

\* the tail has a literal `--`
HasSeparator(tail) ==
  \E i \in 1..Len(tail) : tail[i] = "--"

\* args without its first `--` and without every token after it
CutAtSeparator(args) ==
  SubSeq(args, 1, 2 + Cardinality(BeforeSeparator(TailOf(args))))

\* C8: for a registered command the verdict of reject_reason depends only on
\* the tokens of args[2..] before the first `--`: the tokens after it are not
\* checked and cause no denial, whether or not they begin with `-`.
C8_AfterSeparatorUnchecked ==
  (ValidatedRegistered /\ HasSeparator(TailOf(vcall.args))) =>
    /\ vcall.result = reject_reason(CutAtSeparator(vcall.args))
    /\ \A t \in TailTokens : reject_reason(Append(vcall.args, t)) = vcall.result
    /\ vcall.result.some =>
         \E i \in BeforeSeparator(TailOf(vcall.args)) :
           starts_with(TailOf(vcall.args)[i], "-")

\* C8 witness: a flag outside the allowlist after `--` was allowed
C8_Witness ==
  /\ ValidatedRegistered
  /\ vcall.args = <<"pr", "list", "--", "--bogus">>
  /\ ~vcall.result.some

IsPositional(tok) ==
  ~starts_with(tok, "-")

\* seq with x inserted after its first k entries
InsertAt(seq, k, x) ==
  SubSeq(seq, 1, k) \o <<x>> \o SubSeq(seq, k + 1, Len(seq))

\* C9: for a registered command a vector whose args[2..] has only tokens
\* that do not begin with `-` is allowed, and adding or removing such
\* positional tokens does not change the verdict.
C9_PositionalsNeverDenied ==
  ValidatedRegistered =>
    /\ (\A i \in 1..Len(TailOf(vcall.args)) : IsPositional(TailOf(vcall.args)[i]))
         => ~vcall.result.some
    /\ vcall.result =
         reject_reason(SubSeq(vcall.args, 1, 2)
                         \o SelectSeq(TailOf(vcall.args), LAMBDA t : ~IsPositional(t)))
    /\ \A k \in 2..Len(vcall.args) : \A p \in {"123", "open"} :
         reject_reason(InsertAt(vcall.args, k, p)) = vcall.result

\* C9 witness: a vector with two positional tokens was allowed
C9_Witness ==
  /\ ValidatedRegistered
  /\ vcall.args = <<"release", "view", "123", "open">>
  /\ ~vcall.result.some

(***************************************************************************)
(* Properties of the request pipeline.                                     *)
(***************************************************************************)
\* the stages of handle_request in the order of the claim
StageOrder ==
  <<"maybe_help", "maybe_ext_command", "reject_reason", "Command::output">>

\* the stages handle_request enters for args when each stage that applies
\* returns
StagesFor(args) ==
  IF IsHelpRequest(args) THEN <<"maybe_help">>
  ELSE IF IsExtRequest(args)
       THEN <<"maybe_help", "maybe_ext_command", "handle_run_logs">>
  ELSE IF reject_reason(args).some
       THEN <<"maybe_help", "maybe_ext_command", "reject_reason">>
  ELSE StageOrder

\* C10: for every parsed request the stages run in the order Help,
\* Extension, Validator, Executor and the first stage that applies ends the
\* pipeline: the extension handler runs only if help did not match, the
\* validator only if no extension matched, and gh is spawned, with the
\* arguments of the caller, only if the validator returned no denial.
C10_StagesInOrder ==
  \A h \in Handlers :
    IF ~req[h].some
    THEN trace[h] = << >> /\ Len(CallsOf(h)) = 0
    ELSE LET args == req[h].val
             entered == SelectSeq(trace[h], LAMBDA s : s # "handle_run_logs")
         IN  /\ entered = SubSeq(StageOrder, 1, Len(entered))
             /\ contains(trace[h], "maybe_ext_command") => ~IsHelpRequest(args)
             /\ contains(trace[h], "handle_run_logs")
                  => ~IsHelpRequest(args) /\ IsExtRequest(args)
             /\ contains(trace[h], "reject_reason")
                  => ~IsHelpRequest(args) /\ ~IsExtRequest(args)
             /\ contains(trace[h], "Command::output")
                  => /\ ~IsHelpRequest(args) /\ ~IsExtRequest(args)
                     /\ ~reject_reason(args).some
                     /\ \E spawned \in BOOLEAN :
                          CallsOf(h) = << Proc(h, "gh", args, spawned) >>
             /\ (~IsExtRequest(args) /\ Len(CallsOf(h)) > 0)
                  => contains(trace[h], "Command::output")
             /\ pc[h] \in {"respond", "closed"} => trace[h] = StagesFor(args)

\* C10 witness: an allowed request went through the four stages and gh was
\* spawned with its arguments
C10_Witness ==
  \E h \in Handlers :
    /\ pc[h] = "closed"
    /\ req[h].some
    /\ trace[h] = StageOrder
    /\ CallsOf(h) = << Proc(h, "gh", req[h].val, TRUE) >>
    /\ Len(req[h].val) > 2

\* handler h has ended and its connection is closed
Closed(h) ==
  pc[h] = "closed"

\* the client of handler h sent at least one byte
SentBytes(h) ==
  IF line[h].some THEN line[h].val.n >= 1 ELSE FALSE

\* C11: on every accepted connection on which the client sent at least one
\* byte, the handler writes exactly one response followed by one newline
\* before it closes the connection; no connection gets more than one
\* response.
C11_OneResponsePerConnection ==
  \A h \in Handlers :
    /\ Len(sock[h]) <= 2
    /\ (Closed(h) /\ SentBytes(h)) =>
         /\ resp[h].some
         /\ sock[h] = << resp[h].val, "\n" >>

\* C12: a connection whose read returns zero bytes is closed with nothing
\* written to it, and no stage of the request pipeline runs for it: no
\* request is parsed, no response built, no log line written and no
\* subprocess started by its handler.
C12_EofNoResponse ==
  \A h \in Handlers :
    (line[h].some /\ line[h].val = ReadResult(TRUE, 0)) =>
      /\ Closed(h)
      /\ sock[h] = << >>
      /\ ~req[h].some
      /\ ~resp[h].some
      /\ trace[h] = << >>
      /\ CallsOf(h) = << >>
      /\ LinesOf(h, "") = << >>

C12_Witness ==
  \E h \in Handlers :
    /\ line[h] = Some(ReadResult(TRUE, 0))
    /\ Closed(h)
    /\ service = "clipboard-proxy"

\* handler h read a line of at least one byte that did not parse as the
\* service's Request
InvalidCase(h) ==
  /\ line[h].some
  /\ (IF line[h].some THEN line[h].val.ok /\ line[h].val.n >= 1 ELSE FALSE)
  /\ ~req[h].some

\* what the handler of g holds
HandlerState(g) ==
  <<pc[g], line[g], req[g], resp[g], sock[g], trace[g], output[g]>>

\* the answer to an unparsable line: exit_code 1, stderr
\* "<service>: invalid request: <error>", one INVALID line with the same
\* error and no other line, no stage and no subprocess
C13_Answer ==
  \A h \in Handlers :
    InvalidCase(h) =>
      /\ pc[h] \in {"respond", "closed"}
      /\ resp[h].some
      /\ resp[h].val.exit_code = 1
      /\ \E bad \in InvalidLines :
           /\ resp[h].val.stderr = service \o ": invalid request: " \o bad.error
           /\ LinesOf(h, "") = << LogEntry(h, "INVALID (" \o bad.error \o ")") >>
      /\ CallsOf(h) = << >>
      /\ trace[h] = << >>
      /\ Closed(h) => sock[h] = << resp[h].val, "\n" >>

\* the step in which a handler finds its line unparsable leaves every other
\* handler where it was, and the subprocesses and the slug cache untouched
C13_Step ==
  \A h \in Handlers :
    (~line[h].some /\ InvalidCase(h)') =>
      /\ \A g \in Handlers \ {h} : HandlerState(g)' = HandlerState(g)
      /\ procs' = procs
      /\ repo_slug' = repo_slug

Terminated(h) ==
  output[h].some

\* C14: when the gh subprocess of an allowed request was spawned and has
\* terminated, by normal exit or otherwise, the exit_code of the response is
\* the exit code of the subprocess and not a value made up by the proxy.
C14_RealExitCode ==
  \A h \in Handlers :
    (Terminated(h) /\ resp[h].some) =>
      /\ output[h].val.status.code.some
      /\ resp[h].val.exit_code = output[h].val.status.code.val

\* the direct call of maybe_ext_command names the run-logs extension
RunLogsCall ==
  /\ vcall # NoCall
  /\ (IF Len(vcall.args) < 2 THEN FALSE
      ELSE vcall.args[1] = "ext" /\ vcall.args[2] = "run-logs")

\* the residual arguments of the call: args[2..]
Residual ==
  SliceFrom(vcall.args, 2)

\* s has a character that is not an ASCII digit
HasNonDigit(s) ==
  \E i \in 1..Len(s) : SubSeq(s, i, i) \notin Digits

\* after the call: an id with a character that is not a digit is answered
\* "invalid run id" with exit_code 1 and no subprocess was started; an id of
\* digits only left the cell initialized, that is, the repository was
\* resolved
C15_Result ==
  (RunLogsCall /\ vcall.done /\ Len(Residual) >= 1) =>
    IF HasNonDigit(Residual[1])
    THEN /\ vcall.result = Some(Response(1, "", "gh-proxy: invalid run id: " \o Residual[1]))
         /\ procs = << >>
    ELSE /\ repo_slug.init
         /\ vcall.result.some
         /\ ~starts_with(vcall.result.val.stderr, "gh-proxy: invalid run id")

\* the step of the call: for an id with a character that is not a digit the
\* cell keeps what it held (an uninitialized cell stays so); for an id of
\* digits only and an uninitialized cell, git is the first subprocess
C15_Step ==
  (RunLogsCall /\ ~vcall.done /\ vcall'.done /\ Len(Residual) >= 1) =>
    IF HasNonDigit(Residual[1])
    THEN repo_slug' = repo_slug /\ procs' = procs
    ELSE ~repo_slug.init =>
           /\ Len(procs') >= 1
           /\ procs'[1].prog = "git"

\* C15: for `ext run-logs <id>` with an id that has a character that is not
\* an ASCII digit the handler returns exit_code 1 and "invalid run id"
\* before any external call: neither git nor gh is started and the slug
\* cache is left as it was, uninitialized; an id of ASCII digits only
\* proceeds to the resolution of the repository.
C15_NonNumericIdRejectedFirst ==
  []C15_Result /\ [][C15_Step]_vars

\* the path-traversal id of the unit test was rejected with the cell still
\* uninitialized
C15_Witness ==
  /\ vcall.done
  /\ vcall.args = <<"ext", "run-logs", "../etc/passwd">>
  /\ vcall.result.some
  /\ ~repo_slug.init

\* C16: the run-logs handler proceeds only with exactly one residual
\* argument: with none, or with two or more, it returns exit_code 1 and
\* makes no external call.
C16_ExactlyOneResidual ==
  (RunLogsCall /\ vcall.done /\ Len(Residual) # 1) =>
    /\ vcall.result.some
    /\ vcall.result.val.exit_code = 1
    /\ procs = << >>

\* the group is in neither COMMANDS nor EXT_COMMANDS
UnknownGroup(group) ==
  /\ \A i \in 1..Len(COMMANDS) : COMMANDS[i].group # group
  /\ \A i \in 1..Len(EXT_COMMANDS) : EXT_COMMANDS[i].group # group

\* handler h is past the help stage of handle_request
PastHelp(h) ==
  req[h].some /\ trace[h] # << >>

\* C17: for `help <group>` and for `help <group> <subcommand>` with a group
\* that neither table knows, the answer is the top-level help with
\* exit_code 0 and not a denial.
C17_UnknownGroupFallsBack ==
  \A h \in Handlers :
    (/\ PastHelp(h)
     /\ Len(req[h].val) \in {2, 3}
     /\ (IF Len(req[h].val) >= 2
         THEN req[h].val[1] = "help" /\ UnknownGroup(req[h].val[2])
         ELSE FALSE)) =>
      /\ resp[h] = Some(Response(0, help_toplevel, ""))
      /\ trace[h] = <<"maybe_help">>

\* a token of args[2..] is a help flag
HelpFlagInTail(args) ==
  \E i \in 3..Len(args) : is_help_flag(args[i])

\* C18: a vector whose first two tokens are a registered or an extension
\* command and that has -h or --help anywhere in args[2..] is answered with
\* the help of that command and exit_code 0 by the help stage alone: no
\* extension handler, no denial and no subprocess, whatever the other
\* tokens are; and no vector with a help flag in args[2..] reaches the
\* executor.
C18_HelpFlagWins ==
  \A h \in Handlers :
    (PastHelp(h) /\ HelpFlagInTail(req[h].val)) =>
      /\ CallsOf(h) = << >>
      /\ ~contains(trace[h], "Command::output")
      /\ pc[h] \notin {"exec", "wait"}
      /\ (IsRegistered(req[h].val) \/ IsExtRequest(req[h].val)) =>
           /\ trace[h] = <<"maybe_help">>
           /\ resp[h].some
           /\ resp[h].val.exit_code = 0
           /\ resp[h].val.stderr = ""
           /\ starts_with(resp[h].val.stdout,
                          "gh " \o req[h].val[1] \o " " \o req[h].val[2] \o " ")
           /\ LinesOf(h, "DENIED") = << >>
           /\ LinesOf(h, "EXT") = << >>
           /\ Len(LinesOf(h, "HELP")) = 1

\* a write command with a flag outside its allowlist and a help flag after
\* it was answered with help
C18_Witness ==
  \E h \in Handlers :
    /\ Closed(h)
    /\ req[h] = Some(<<"pr", "comment", "--repo", "--help">>)
    /\ resp[h].some
    /\ resp[h].val.exit_code = 0
    /\ sock[h] # << >>

RECURSIVE FindFrom(_, _, _)
\* the first position from k on at which marker begins in text, or 0
FindFrom(text, marker, k) ==
  IF k + Len(marker) - 1 > Len(text) THEN 0
  ELSE IF SubSeq(text, k, k + Len(marker) - 1) = marker THEN k
  ELSE FindFrom(text, marker, k + 1)

\* what follows the first occurrence of marker in text
AfterMarker(text, marker) ==
  LET k == FindFrom(text, marker, 1)
  IN  IF k = 0 \/ k + Len(marker) > Len(text) THEN ""
      ELSE SubSeq(text, k + Len(marker), Len(text))

\* the positions of text that hold a blank, a comma or a newline
SepPositions(text) ==
  {i \in 1..Len(text) : SubSeq(text, i, i) \in {" ", ",", "\n"}}

\* the tokens of text, each at the position where it starts: the maximal
\* runs of characters other than blank, comma and newline
TokensOf(text) ==
  LET seps == SepPositions(text)
      starts == {i \in 1..Len(text) : i \notin seps /\ (i = 1 \/ (i - 1) \in seps)}
  IN  [s \in starts |->
         SubSeq(text, s, Least({p \in seps : p > s} \cup {Len(text) + 1}) - 1)]

\* the tokens a help text shows under "Allowed flags:"
ShownFlags(help_text) ==
  TokensOf(AfterMarker(help_text, "Allowed flags:\n"))

\* how often x occurs among the tokens
Count(tokens, x) ==
  Cardinality({s \in DOMAIN tokens : tokens[s] = x})

\* the direct call of maybe_help asked for the help of a registered command
\* with a help flag after the pair
HelpOfRegistered ==
  /\ vcall # NoCall
  /\ vcall.done
  /\ IsRegistered(vcall.args)
  /\ HelpFlagInTail(vcall.args)

\* C19: the flag tokens the help of a registered command shows are exactly
\* its allowed_flags: every allowed flag is shown once, and nothing that is
\* not an allowed flag is shown.
C19_HelpListsAllowlist ==
  HelpOfRegistered =>
    /\ vcall.result.some
    /\ LET shown == ShownFlags(vcall.result.val)
           allowed == CmdOf(vcall.args).allowed_flags
       IN  /\ \A i \in 1..Len(allowed) : Count(shown, allowed[i]) = 1
           /\ \A s \in DOMAIN shown : contains(allowed, shown[s])
           /\ Cardinality(DOMAIN shown) = Len(allowed)

\* the help of `pr list` was asked for and shows --state and -s
C19_Witness ==
  /\ vcall.done
  /\ vcall.args = <<"pr", "list", "-h">>
  /\ vcall.result.some
  /\ Count(ShownFlags(vcall.result.val), "--state") = 1
  /\ Count(ShownFlags(vcall.result.val), "-s") = 1

\* the i-th entry of the directory is a regular file whose modification
\* time is known and whose age at the time of the scan is at most the
\* freshness window
Fresh(i) ==
  /\ dir.entries[i].is_file
  /\ dir.entries[i].mtime.some
  /\ (IF dir.entries[i].mtime.some
      THEN dir.now - dir.entries[i].mtime.val <= MAX_AGE_SECS
      ELSE FALSE)

\* handler h has scanned the directory and found a file to return
Found(h) ==
  /\ contains(trace[h], "find_newest_screenshot")
  /\ resp[h].some
  /\ (IF resp[h].some THEN resp[h].val.exit_code = 0 ELSE FALSE)

\* C20: what find_newest_screenshot returns is the contents of a regular
\* file whose modification time is the greatest among the regular files of
\* the directory of age at most 120 seconds; a file older than 120 seconds
\* is never returned.
C20_NewestFreshFileReturned ==
  \A h \in Handlers :
    Found(h) =>
      \E i \in 1..Len(dir.entries) :
        /\ Fresh(i)
        /\ dir.entries[i].data.some
        /\ resp[h].val.stdout_b64 = base64_encode(dir.entries[i].data.val)
        /\ \A j \in 1..Len(dir.entries) :
             Fresh(j) => dir.entries[j].mtime.val <= dir.entries[i].mtime.val

\* handler h has called find_newest_screenshot
Scanned(h) ==
  contains(trace[h], "find_newest_screenshot")

\* the directory can be listed and holds no regular file of age at most the
\* freshness window
NoFreshFile ==
  dir.readable /\ \A i \in 1..Len(dir.entries) : ~Fresh(i)

\* C21: when the directory holds no regular file within the freshness
\* window, find_newest_screenshot reports the not-found error that names the
\* window and the directory, and the read_image response has exit_code 1
\* and an empty stdout_b64.
C21_NotFoundReported ==
  \A h \in Handlers :
    (Scanned(h) /\ NoFreshFile) =>
      /\ resp[h] = Some(ClipResponse(1, "",
           "clipboard-proxy: no screenshot younger than 120s in " \o ScreenshotsDir))
      /\ LinesOf(h, "ERROR") = << LogEntry(h,
           "ERROR   read_image: no screenshot younger than 120s in " \o ScreenshotsDir) >>
      /\ LinesOf(h, "OK") = << >>

\* a directory whose only file is 121 seconds old was scanned and answered
C21_Witness ==
  \E h \in Handlers :
    /\ Scanned(h)
    /\ Closed(h)
    /\ Len(dir.entries) = 1
    /\ dir.entries[1].is_file
    /\ dir.entries[1].mtime = Some(dir.now - 121)
    /\ dir.entries[1].data.some
    /\ sock[h] # << >>

\* C22: an entry that is not a regular file is never selected by
\* find_newest_screenshot and never descended into, also when it is the
\* most recently modified entry: what is returned is the contents of a
\* regular file of the directory itself, never a file inside a
\* subdirectory, and no read is attempted on a subdirectory.
C22_SubdirectoriesSkipped ==
  \A h \in Handlers :
    (Scanned(h) /\ resp[h].some /\ dir.readable) =>
      /\ resp[h].val.exit_code = 0 =>
           \E i \in 1..Len(dir.entries) :
             /\ dir.entries[i].is_file
             /\ dir.entries[i].data.some
             /\ resp[h].val.stdout_b64 = base64_encode(dir.entries[i].data.val)
      /\ \A i \in 1..Len(dir.entries) :
           ~dir.entries[i].is_file =>
             /\ dir.entries[i].inner.some =>
                  resp[h].val.stdout_b64 # base64_encode(dir.entries[i].inner.val)
             /\ resp[h].val.stderr #
                  "clipboard-proxy: failed to read " \o ScreenshotsDir \o "/"
                    \o dir.entries[i].path \o ": " \o IoErrorText

\* the newest entry is a subdirectory that holds a file, and the contents of
\* an older regular file were returned
C22_Witness ==
  \E h \in Handlers :
    /\ Found(h)
    /\ Len(dir.entries) = 2
    /\ ~dir.entries[1].is_file
    /\ dir.entries[1].inner.some
    /\ dir.entries[1].mtime = Some(dir.now)
    /\ dir.entries[2].is_file
    /\ dir.entries[2].mtime = Some(dir.now - 30)
    /\ resp[h].val.stdout_b64 = base64_encode(FileBytes(2))

\* the i-th entry is one the scan keeps: a regular file whose modification
\* time is known, not later than the clock reading and at most the
\* freshness window before it
Kept(i) ==
  /\ Fresh(i)
  /\ dir.entries[i].mtime.val <= dir.now

\* the kept entries with the greatest modification time
Newest ==
  {i \in 1..Len(dir.entries) :
     /\ Kept(i)
     /\ \A j \in 1..Len(dir.entries) :
          Kept(j) => dir.entries[j].mtime.val <= dir.entries[i].mtime.val}

\* the greatest element of a set of numbers
Greatest(S) ==
  CHOOSE i \in S : \A j \in S : j <= i

\* handler h has scanned a directory in which several kept files share the
\* greatest modification time
TieCase(h) ==
  /\ Scanned(h)
  /\ resp[h].some
  /\ dir.readable
  /\ Cardinality(Newest) >= 2

\* the response to handler h is about the i-th entry: its contents, or the
\* failure to read it
AnswerAbout(h, i) ==
  IF dir.entries[i].data.some
  THEN resp[h].val = ClipResponse(0, base64_encode(dir.entries[i].data.val), "")
  ELSE resp[h].val = ClipResponse(1, "",
         "clipboard-proxy: failed to read " \o ScreenshotsDir \o "/"
           \o dir.entries[i].path \o ": " \o IoErrorText)

\* C23 as stated: when several qualifying files share the greatest
\* modification time, the one encountered last in the scan is returned.
C23_Original ==
  \A h \in Handlers : TieCase(h) => AnswerAbout(h, Greatest(Newest))

\* C23: when several qualifying files share the greatest modification time,
\* the one encountered first in the scan is returned.
C23_FirstOfTieReturned ==
  \A h \in Handlers : TieCase(h) => AnswerAbout(h, Least(Newest))

\* two files of the same modification time were scanned and the contents of
\* the first were returned
C23_Witness ==
  \E h \in Handlers :
    /\ TieCase(h)
    /\ Newest = {1, 2}
    /\ Closed(h)
    /\ resp[h].val.stdout_b64 = base64_encode(FileBytes(1))

\* C24: the screenshot service accepts the command name read_image only:
\* any other command is answered with exit_code 1 and stderr
\* "clipboard-proxy: unknown command: <name>", one DENIED line is logged and
\* the screenshots directory is not read.
C24_UnknownCommandDenied ==
  \A h \in Handlers :
    (/\ service = "clipboard-proxy"
     /\ req[h].some
     /\ trace[h] # << >>
     /\ req[h] # Some("read_image")) =>
      /\ pc[h] \in {"respond", "closed"}
      /\ resp[h] = Some(ClipResponse(1, "",
           "clipboard-proxy: unknown command: " \o req[h].val))
      /\ LinesOf(h, "") = << LogEntry(h, "DENIED  unknown command: " \o req[h].val) >>
      /\ ~Scanned(h)
      /\ Closed(h) => sock[h] = << resp[h].val, "\n" >>

\* the command READ_IMAGE was denied and the denial written to the socket
C24_Witness ==
  \E h \in Handlers :
    /\ req[h] = Some("READ_IMAGE")
    /\ Closed(h)
    /\ sock[h] # << >>
    /\ ~Scanned(h)

\* the line the watchdog of a process started by orchestrator 1 logs
ShutdownLine ==
  LogEntry(WatchdogThread, "parent 101 exited (ppid now 1), shutting down")

\* the recorded parent id and the current one differ
ParentChanged ==
  /\ parent_pid.some
  /\ ppid # parent_pid.val

\* the watchdog acts only on a changed parent id, and in the order: log
\* line, removal of the socket file, exit of the process with status 0
WatchdogOrder ==
  /\ wd \in {"log", "log_nl", "remove", "exit", "done"} => ParentChanged
  /\ wd \in {"remove", "exit", "done"} => contains(log, ShutdownLine)
  /\ wd \in {"none", "sleep", "log", "log_nl"} =>
       ~\E i \in 1..Len(sys) : sys[i].by = WatchdogThread
  /\ wd = "remove" => path = Some(1)
  /\ wd = "exit" =>
       /\ path = None
       /\ sys[Len(sys)] = Sys(WatchdogThread, "remove_file", TRUE)
       /\ Alive
  /\ wd = "done" =>
       /\ path = None
       /\ SubSeq(sys, Len(sys) - 1, Len(sys)) =
            << Sys(WatchdogThread, "remove_file", TRUE), Sys(WatchdogThread, "exit", TRUE) >>
  /\ status = Some(0) <=> wd = "done"

\* C25: when the parent id of the process differs from the one recorded at
\* startup, the watchdog logs the transition, then removes the socket file,
\* then ends the process, in this order; with the watchdog scheduled fairly
\* the process ends after every such change, whatever the handlers do.
C25_WatchdogShutsDown ==
  /\ []WatchdogOrder
  /\ (ParentChanged ~> status = Some(0))

\* the process was ended by the watchdog while one handler waited for its
\* client and another for its subprocess
C25_Witness ==
  /\ status = Some(0)
  /\ wd = "done"
  /\ \E h \in Handlers : pc[h] = "AwaitingLine"
  /\ \E h \in Handlers : pc[h] = "wait"

\* the service processes that hold a listening socket made for the path
LiveListeners ==
  {p \in Orchestrators : Listening(p)}

\* the socket file of instance p is at the socket path
OwnsPath(p) ==
  path = Some(p)

\* C26: at most one live service process listens on the socket path, also
\* when two instances are started for it, and the path is not taken away
\* from a live listener: the socket file of every listening process that has
\* not removed it itself is still at the path.
C26_OneLiveListener ==
  /\ Cardinality(LiveListeners) <= 1
  /\ \A p \in LiveListeners : inst[p].wd # "exit" => OwnsPath(p)

\* handler thread h waits for its client or for its subprocess
Blocked(h) ==
  pc[h] \in {"AwaitingLine", "wait", "git_wait", "api_wait"}

\* the accept loop is at incoming() and the next connection would be given
\* to handler thread h
NextConnection(h) ==
  /\ Alive
  /\ main = "accept"
  /\ pc[h] = "idle"
  /\ \A g \in Handlers : g < h => pc[g] # "idle"

GitCalls ==
  SelectSeq(procs, LAMBDA p : p.prog = "git")

\* the values detect_repo has returned to handler thread h, as texts
DetectReturns(h) ==
  SelectSeq(trace[h], LAMBDA s : starts_with(s, "detect_repo -> "))

\* git has run at most once, and every value detect_repo has returned is the
\* value of the cell
DetectedOnce ==
  /\ Len(GitCalls) <= 1
  /\ \A h \in Handlers :
       \A i \in 1..Len(DetectReturns(h)) :
         /\ repo_slug.init
         /\ DetectReturns(h)[i] = "detect_repo -> " \o ShowOption(repo_slug.val)

\* C28: under every interleaving of concurrent run-logs requests git is
\* invoked at most once in the process, the cell is written once, and
\* every call of detect_repo returns the value of the cell.
C28_DetectedOnce ==
  /\ []DetectedOnce
  /\ [][repo_slug.init => repo_slug' = repo_slug]_vars

\* two handler threads have called detect_repo and git has run once
C28_Witness ==
  /\ Len(GitCalls) = 1
  /\ GitCalls[1].spawned
  /\ \E g, h \in Handlers :
       /\ g # h
       /\ Len(DetectReturns(g)) = 1
       /\ Len(DetectReturns(h)) = 1
       /\ repo_slug.val.some

\* text without a newline is at the end of the log file only while the
\* thread that wrote it holds the lock, and a handler that waits for its
\* client or its subprocess does not hold the lock
LogExclusive ==
  /\ partial.some => lock = Some(partial.val.by)
  /\ \A h \in Handlers : Blocked(h) => lock # Some(h)

\* the log file is a sequence of whole lines when no thread is inside
\* log_line and when the process has ended
LogWholeLines ==
  (lock = None \/ ~Alive) => partial = None

\* C29: the writes of the handlers and of the watchdog to the log exclude
\* each other, each call of log_line holds the lock for one line, the log
\* file is always a sequence of whole lines, and no handler holds the lock
\* while it waits for a subprocess or for its socket.
C29_LogWholeLines ==
  /\ LogExclusive
  /\ LogWholeLines

\* the i-th call of run() is a bind or an open of the log that failed
StartupFailure(i) ==
  /\ sys[i].call \in {"bind", "open"}
  /\ ~sys[i].ok

\* C30: when the bind of the socket or the open of the log file fails, the
\* process ends with status 1 at once: the failed call is its last and is
\* not repeated, no watchdog is started and no connection is accepted.
C30_StartupFailureIsFatal ==
  /\ \A i \in 1..Len(sys) :
       StartupFailure(i) =>
         /\ i = Len(sys)
         /\ status = Some(1)
         /\ \A j \in 1..Len(sys) : sys[j].call = sys[i].call => j = i
  /\ status = Some(1) =>
       /\ \E i \in 1..Len(sys) : StartupFailure(i)
       /\ main = "exited"
       /\ wd = "none"
       /\ parent_pid = None
       /\ \A h \in Handlers : pc[h] = "idle"
       /\ ~contains(log, LogEntry(0, "listening on " \o SocketPath))

\* the socket was bound, the log file could not be opened and the process
\* has ended
C30_Witness ==
  /\ sys = << Sys(0, "bind", TRUE), Sys(0, "open", FALSE) >>
  /\ status = Some(1)
  /\ path = Some(1)

\* handler h parsed a request that handle_request passes to the executor:
\* no help request, no extension command, and the validator allows it
AllowedCase(h) ==
  /\ service = "gh-proxy"
  /\ req[h].some
  /\ ~IsHelpRequest(req[h].val)
  /\ ~IsExtRequest(req[h].val)
  /\ ~reject_reason(req[h].val).some

\* Command::output of handler h returned Err: gh could not be spawned
SpawnFailed(h) ==
  \E i \in 1..Len(procs) : procs[i].by = h /\ procs[i].prog = "gh" /\ ~procs[i].spawned

\* the gh subprocess of handler h was spawned and exited with a code
Exited(h) ==
  output[h].some /\ output[h].val.status.code.some

\* C31: for an allowed request, when gh cannot be spawned the response has
\* exit_code 1 and the stderr "gh-proxy: failed to execute gh: <error>", one
\* ERROR line is logged and no EXIT line; when gh was spawned and exited, one
\* EXIT line with its code is logged and no ERROR line.
C31_SpawnFailureVersusExit ==
  \A h \in Handlers :
    AllowedCase(h) =>
      /\ SpawnFailed(h) =>
           /\ resp[h] = Some(Response(1, "", "gh-proxy: failed to execute gh: " \o IoErrorText))
           /\ LinesOf(h, "ERROR   ")
                = << LogEntry(h, "ERROR   gh " \o cmd_str(h) \o " (" \o IoErrorText \o ")") >>
           /\ LinesOf(h, "EXIT    ") = << >>
      /\ Exited(h) =>
           /\ LinesOf(h, "EXIT    ")
                = << LogEntry(h, "EXIT    gh " \o cmd_str(h) \o " -> "
                                   \o IntToString(output[h].val.status.code.val)) >>
           /\ LinesOf(h, "ERROR   ") = << >>
           /\ resp[h].some /\ resp[h].val.exit_code = output[h].val.status.code.val

\* an allowed request whose gh could not be spawned has been answered, while
\* another allowed request had its gh exit with a code other than 0
C31_Witness ==
  \E h, g \in Handlers :
    /\ AllowedCase(h) /\ SpawnFailed(h) /\ pc[h] = "closed"
    /\ AllowedCase(g) /\ Exited(g) /\ pc[g] = "closed"
    /\ output[g].val.status.code.val # 0

\* the positions of a table allowed_flags that hold a short alias: the
\* tables of COMMANDS write each short flag directly after its long form
AliasPositions(allowed) ==
  {i \in 2..Len(allowed) : IsShort(allowed[i]) /\ starts_with(allowed[i - 1], "--")}

\* the line of a help text that shows the short flag: the lines of long
\* flags without a short one begin with six blanks
LineOfShort(help_text, short) ==
  LET k == FindFrom(help_text, "\n  " \o short, 1)
      e == IF k = 0 THEN 0 ELSE FindFrom(help_text, "\n", k + 1)
  IN  IF k = 0 \/ e = 0 THEN "" ELSE SubSeq(help_text, k + 1, e - 1)

\* C32: in the help of a registered command, each short flag that stands
\* next to its long form in allowed_flags is shown on one line with that
\* long form, as in `-s, --state` for `pr list`, and not with a different
\* long flag.
C32_ShortShownWithItsLong ==
  HelpOfRegistered =>
    /\ vcall.result.some
    /\ LET allowed == CmdOf(vcall.args).allowed_flags
       IN  \A i \in AliasPositions(allowed) :
             LineOfShort(vcall.result.val, allowed[i])
               = "  " \o allowed[i] \o ", " \o allowed[i - 1]

\* the positions of the log at which handler h wrote a line that begins
\* with one of the tags
LogPositions(h, tags) ==
  {i \in 1..Len(log) : log[i].by = h /\ \E t \in tags : starts_with(log[i].msg, t)}

\* the subprocess attempt of handler h has ended: Command::output returned
AttemptEnded(h) ==
  SpawnFailed(h) \/ output[h].some

\* handler h wrote its response to the socket
Responded(h) ==
  sock[h] # << >>

\* C33: for a request that reaches the executor, the ALLOWED line is in the
\* log when the subprocess is spawned; a line EXIT or ERROR of the request is
\* logged only after the subprocess attempt has ended, after the ALLOWED
\* line and never twice, and it is in the log when the response is written;
\* every request that got a response has a log line written before it.
C33_LoggedBeforeActing ==
  \A h \in Handlers :
    /\ AllowedCase(h) =>
         LET allowed == LogPositions(h, {"ALLOWED "})
             ended == LogPositions(h, {"EXIT    ", "ERROR   "})
         IN  /\ CallsOf(h) # << >> => Cardinality(allowed) = 1
             /\ Cardinality(ended) <= 1
             /\ ended # {} => /\ AttemptEnded(h)
                              /\ \A e \in ended : \E a \in allowed : a < e
             /\ Responded(h) => Cardinality(ended) = 1
    /\ Responded(h) => \E i \in 1..Len(log) : log[i].by = h

\* two allowed requests were served at the same time: the one accepted
\* later was answered first, after a failed spawn, and the other after the
\* exit of its gh
C33_Witness ==
  \E h, g \in Handlers :
    /\ h < g
    /\ AllowedCase(h) /\ AllowedCase(g)
    /\ Responded(h) /\ Responded(g)
    /\ output[h].some /\ SpawnFailed(g)
    /\ \E e \in LogPositions(g, {"ERROR   "}) :
         \E a \in LogPositions(h, {"ALLOWED "}) :
           \E x \in LogPositions(h, {"EXIT    "}) : a < e /\ e < x

\* the step in which the watchdog of instance p calls remove_file
WatchdogUnlinks(p) ==
  inst[p].wd = "remove" /\ inst'[p].wd = "exit"

\* the file at the socket path belongs to an instance other than p that is
\* running and serving
OthersLiveSocket(p) ==
  /\ path.some
  /\ path.val # p
  /\ Connectable
  /\ inst[path.val].main = "accept"

\* C34: the remove_file of a watchdog never unlinks the socket file of
\* another instance that is still running and serving: at that step the
\* path is absent, or the file is the one its own process bound, or one
\* that nobody listens on.
C34_WatchdogRemovesOwnSocket ==
  [][\A p \in Orchestrators : WatchdogUnlinks(p) => ~OthersLiveSocket(p)]_vars

\* the calls of gh made so far
GhCalls ==
  SelectSeq(procs, LAMBDA p : p.prog = "gh")

\* s is a non-empty string of ASCII digits
IsRunId(s) ==
  Len(s) >= 1 /\ ~HasNonDigit(s)

\* C35: every `gh api` call of the run-logs handler has the path
\* /repos/<detected slug>/actions/runs/<id>/logs, where <id> is the first
\* residual argument and a non-empty string of ASCII digits; for every other
\* first argument, the empty string included, gh is not called.
C35_ApiPathFromValidatedId ==
  (RunLogsCall /\ vcall.done) =>
    IF (IF Len(Residual) >= 1 THEN IsRunId(Residual[1]) ELSE FALSE)
    THEN \A i \in 1..Len(GhCalls) :
           /\ repo_slug.init
           /\ repo_slug.val.some
           /\ GhCalls[i].argv = <<"api", "/repos/" \o repo_slug.val.val
                                     \o "/actions/runs/" \o Residual[1] \o "/logs">>
    ELSE GhCalls = << >>

\* detect_repo has returned None in this process: the cell holds None
DetectionFailed ==
  repo_slug = Inited(None)

\* the response of handle_run_logs without a repository
NoRepositoryResponse ==
  Response(1, "", "gh-proxy: could not detect repository from git remote")

\* in this step handler h gets the response to a run-logs request
RunLogsAnswered(h) ==
  /\ resp[h] = None
  /\ resp'[h] # None
  /\ req'[h].some
  /\ IsExtRequest(req'[h].val)

\* the run-logs request of handler h passes the checks that handle_run_logs
\* makes before it calls detect_repo
PassesIdCheck(h) ==
  /\ Len(req'[h].val) >= 3
  /\ ~HasNonDigit(req'[h].val[3])

\* after a failed detection no step starts git, and none starts a gh for a
\* run-logs request
NoCallAfterFailure ==
  DetectionFailed =>
    /\ repo_slug' = repo_slug
    /\ \A i \in (Len(procs) + 1)..Len(procs') :
         /\ procs'[i].prog # "git"
         /\ ~IsExtRequest(req'[procs'[i].by].val)

\* the claim as stated: after a failed detection every run-logs request is
\* answered "could not detect repository"
C36_Original ==
  [][/\ NoCallAfterFailure
     /\ DetectionFailed =>
          \A h \in Handlers : RunLogsAnswered(h) => resp'[h] = Some(NoRepositoryResponse)]_vars

\* C36: a failed repository detection is cached like a successful one: once
\* the cell holds None, every later run-logs request that passes the checks
\* of its run id is answered with exit_code 1 and "could not detect
\* repository from git remote", and no run-logs request starts git or gh
\* again.
C36_FailedDetectionCached ==
  [][/\ NoCallAfterFailure
     /\ DetectionFailed =>
          \A h \in Handlers :
            (RunLogsAnswered(h) /\ PassesIdCheck(h)) =>
              resp'[h] = Some(NoRepositoryResponse)]_vars

\* two run-logs requests were answered "could not detect repository" and
\* git was called for the first of them only
C36_Witness ==
  /\ DetectionFailed
  /\ \A h \in Handlers :
       /\ req[h] = Some(<<"ext", "run-logs", "123">>)
       /\ resp[h] = Some(NoRepositoryResponse)
       /\ pc[h] = "closed"
  /\ Len(procs) = 1
  /\ procs[1].prog = "git"

\* the gh subprocess that handler h spawned has not ended: output() has not
\* returned in the handler
Running(h) ==
  /\ \E i \in 1..Len(procs) : procs[i].by = h /\ procs[i].prog = "gh" /\ procs[i].spawned
  /\ output[h] = None

\* the service process has ended through process::exit(0) of the watchdog
ExitedByWatchdog ==
  status = Some(0)

\* C37: when the service process has ended through the watchdog, no gh
\* subprocess of its handlers is still running: each request with an ALLOWED
\* line has its EXIT or ERROR line in the log, or its subprocess has ended
\* or was never started.
C37_NoSubprocessOutlivesService ==
  ExitedByWatchdog =>
    \A h \in Handlers :
      LogPositions(h, {"ALLOWED "}) # {} =>
        \/ LogPositions(h, {"EXIT    ", "ERROR   "}) # {}
        \/ ~Running(h)

\* the container of orchestrator o is running and its ensure_gh_proxy
\* returned at the probe: it spawned no proxy, because a connection to the
\* socket of a proxy that another orchestrator had spawned succeeded
ReusedListener(o) ==
  /\ orch[o] = "run_container"
  /\ inst[o] = NotStarted

\* C38: while the container of an orchestrator is running, the orchestrator
\* having found a listener at the workspace socket path, a proxy stays
\* reachable at that path, also when the proxy was spawned by another
\* orchestrator that exits earlier.
C38_ProxyReachableWhileContainerRuns ==
  \A o \in Orchestrators : ReusedListener(o) => Connectable

=============================================================================
